---- MODULE Spec2Model ----
(***************************************************************************)
(* Courier demand dashboard: the fleet allocator of FleetDemandForecast    *)
(* (src/unnamed/part_005) and the forecast engine of DemandForecastChart   *)
(* (src/frontend/src/components/DemandForecastChart.tsx).                  *)
(*                                                                         *)
(* Spec          the FleetDemandForecast component: its props, its React   *)
(*               state and the effect that recomputes fleetRequirements.   *)
(* SpecForecast  calculateForecast as a pure function of a bounded         *)
(*               history, day-type filter and target month.                *)
(* SpecFetch     one run of fetchHistoricalData, response by response.     *)
(* SpecSelection the FleetDemandForecast component from its mount, with    *)
(*               its terminal, month, year and day selectors.              *)
(* SpecDashboard LogisticsSection (CityHeatmap.tsx:477-501): the chart     *)
(*               with its selectors and its runs of fetchHistoricalData,   *)
(*               handing its forecast to FleetDemandForecast.              *)
(***************************************************************************)
EXTENDS Integers, Sequences, FiniteSets, TLC

VARIABLES
    \* ---- FleetDemandForecast (src/unnamed/part_005) ----
    regularTruckCapacity,   \* prop, default 2200
    largeTruckCapacityMax,  \* prop, default 2800
    forecastData,           \* prop: sequence of DailyForecastData
    optimizationStrategy,   \* "cost" | "capacity"
    useLargeTrucks,         \* BOOLEAN
    selectedTerminal,       \* "" when no terminal is selected
    selectedDay,            \* <<>> for null, <<d>> for day d
    terminalSpecificData,   \* <<>> for null, <<r>> for a DailyForecastData r
    manualAssignments,      \* function: day -> [regular, large], on the days overridden
    fleetRequirements,      \* sequence of FleetRequirement
    fleetData,              \* what onFleetDataChange last handed to the parent
    selectedMonth,          \* 1..12
    selectedYear,
    fleetLoading,           \* the component's loading flag
    pendingFetches,         \* the selectedDay each fetchTerminalData in flight runs with
    \* ---- calculateForecast (DemandForecastChart.tsx) ----
    historical,             \* sequence of batches, each a sequence of [day, value]
    historicalMeta,         \* sequence of [year, month], one per batch
    filter,                 \* "all" | "weekday" | "weekend"
    targetYear,
    targetMonth,
    forecast,               \* the list calculateForecast returned (state forecastData)
    \* ---- fetchHistoricalData (DemandForecastChart.tsx) ----
    loading,                \* BOOLEAN
    historicalData,         \* the last month of the window, filtered
    combinedData,           \* what the chart draws
    maxValue,               \* top of the Y axis
    selectedMonths,         \* length of the window, in months
    responses,              \* the outcome of each request of the running fetch
    chartTerminal,          \* the chart's selectedTerminal, "" for all terminals
    runs,                   \* the selection each fetchHistoricalData in flight runs with
    pc                      \* "fleet" | "input" | "done" | "again" | "fetching" | "shown" | "dashboard"

vars == <<regularTruckCapacity, largeTruckCapacityMax, forecastData,
          optimizationStrategy, useLargeTrucks, selectedTerminal, selectedDay,
          terminalSpecificData, manualAssignments, fleetRequirements, fleetData,
          selectedMonth, selectedYear, fleetLoading, pendingFetches,
          historical, historicalMeta, filter, targetYear, targetMonth, forecast,
          loading, historicalData, combinedData, maxValue, selectedMonths, responses,
          chartTerminal, runs, pc>>

selectionVars == <<selectedMonth, selectedYear, fleetLoading, pendingFetches>>

fleetVars == <<regularTruckCapacity, largeTruckCapacityMax, forecastData,
               optimizationStrategy, useLargeTrucks, selectedTerminal, selectedDay,
               terminalSpecificData, manualAssignments, fleetRequirements, fleetData,
               selectionVars>>

chartVars == <<loading, historicalData, combinedData, maxValue, selectedMonths, responses,
               chartTerminal, runs>>

engineVars == <<historical, historicalMeta, filter, targetYear, targetMonth, forecast, chartVars>>

(***************************************************************************)
(* Bounds of the model.                                                    *)
(***************************************************************************)
\* Forecast days offered to the allocator are 1..MaxDays.
MaxDays == 1
\* A day's forecast (packages) ranges over 0..MaxPackages.
MaxPackages == 4
MaxObsDay == 1

(***************************************************************************)
(* JavaScript numbers.  The allocator works on integers, except that a     *)
(* capacity of 0 makes Math.floor(p / 0) = Infinity and p % 0 = NaN.  The  *)
(* three non-finite values are kept apart from every integer the model     *)
(* uses, and the operators below follow IEEE-754 / ECMAScript on them.     *)
(***************************************************************************)
NaN == 999999999
Infinity == 999999998
NegInfinity == 999999997

IsNaN(x) == x = NaN
IsFinite(x) == x # NaN /\ x # Infinity /\ x # NegInfinity

\* a > b, a <= b, a >= b: every comparison with NaN is false.
JsGt(a, b) ==
    IF IsFinite(a) /\ IsFinite(b) THEN a > b
    ELSE IF IsNaN(a) \/ IsNaN(b) THEN FALSE
    ELSE IF a = b THEN FALSE
    ELSE IF a = Infinity \/ b = NegInfinity THEN TRUE
    ELSE IF a = NegInfinity \/ b = Infinity THEN FALSE
    ELSE a > b

JsLe(a, b) == ~IsNaN(a) /\ ~IsNaN(b) /\ ~JsGt(a, b)

JsGe(a, b) == JsLe(b, a)

\* a + b
JsAdd(a, b) ==
    IF IsFinite(a) /\ IsFinite(b) THEN a + b
    ELSE IF IsNaN(a) \/ IsNaN(b) THEN NaN
    ELSE IF (a = Infinity /\ b = NegInfinity) \/ (a = NegInfinity /\ b = Infinity)
    THEN NaN
    ELSE IF a = Infinity \/ b = Infinity THEN Infinity
    ELSE NegInfinity

JsSign(x) == IF x = Infinity THEN 1
             ELSE IF x = NegInfinity THEN -1
             ELSE IF x > 0 THEN 1 ELSE IF x < 0 THEN -1 ELSE 0

\* a * b
JsMul(a, b) ==
    IF IsFinite(a) /\ IsFinite(b) THEN a * b
    ELSE IF IsNaN(a) \/ IsNaN(b) THEN NaN
    ELSE IF JsSign(a) * JsSign(b) = 0 THEN NaN
    ELSE IF JsSign(a) * JsSign(b) > 0 THEN Infinity
    ELSE NegInfinity

\* a - b
JsSub(a, b) ==
    IF IsNaN(b) THEN NaN
    ELSE IF b = Infinity THEN JsAdd(a, NegInfinity)
    ELSE IF b = NegInfinity THEN JsAdd(a, Infinity)
    ELSE JsAdd(a, -b)

\* Math.floor(a / b) for a finite a > 0 and a finite b >= 0
JsFloorDiv(a, b) == IF b = 0 THEN Infinity ELSE a \div b

\* Math.ceil(a / b) for a finite a > 0 and a finite b >= 0
JsCeilDiv(a, b) == IF b = 0 THEN Infinity ELSE (a + b - 1) \div b

\* a % b for a finite a > 0 and a finite b >= 0
JsMod(a, b) == IF b = 0 THEN NaN ELSE a % b

\* Math.max(0, x)
JsMax0(x) ==
    IF IsNaN(x) THEN NaN
    ELSE IF JsGt(x, 0) THEN x ELSE 0

(***************************************************************************)
(* calculateFleetRequirements, src/unnamed/part_005:180-319.               *)
(***************************************************************************)
\* const packages = dayData.forecast || 0;
Packages(dayData) ==
    IF "forecast" \in DOMAIN dayData THEN dayData.forecast ELSE 0

\* The record pushed for a day without packages (lines 212-224): it has no
\* assignedRegularTrucks, assignedLargeTrucks or remainingPackages field.
ZeroRequirement(day) ==
    [day |-> day, packages |-> 0, regularTrucks |-> 0, largeTrucks |-> 0,
     totalTrucks |-> 0, regularCapacity |-> 0, largeCapacity |-> 0,
     totalCapacity |-> 0]

\* remainingPackages > regularTruckCapacity * 0.6, on a finite remainder and a
\* finite capacity (the doubles agree with the exact comparison for every
\* capacity below 5000).
ExceedsSixtyPercent(remainder, regCap) == remainder * 10 > regCap * 6

\* regularTruckCost > 0 in place of regularTruckCost > 1.
RegularTruckCostAboveZero(remainder, regCap) == remainder > 0

\* regularTruckCost > 1, where regularTruckCost = remainingPackages /
\* regularTruckCapacity; it is evaluated only with a finite remainder > 0, which
\* a capacity of 0 never yields.
RegularTruckCostAboveOne(remainder, regCap) == remainder > regCap

\* CostStrategy without the test remainingPackages <= largeTruckCapacityMax.
CostStrategyNoFitCheck(packages, regCap, largeCap, useLarge) ==
    LET regular0 == JsFloorDiv(packages, regCap)
        remainder == JsMod(packages, regCap)
    IN  IF JsGt(remainder, 0)
        THEN IF useLarge
             THEN IF ExceedsSixtyPercent(remainder, regCap)
                     \/ RegularTruckCostAboveOne(remainder, regCap)
                  THEN [regular |-> regular0, large |-> 1]
                  ELSE [regular |-> JsAdd(regular0, 1), large |-> 0]
             ELSE [regular |-> JsAdd(regular0, 1), large |-> 0]
        ELSE [regular |-> regular0, large |-> 0]

\* CostStrategy with no truck for a remainder that gets no large truck.
CostStrategyRemainderLeft(packages, regCap, largeCap, useLarge) ==
    LET regular0 == JsFloorDiv(packages, regCap)
        remainder == JsMod(packages, regCap)
    IN  IF JsGt(remainder, 0)
        THEN IF useLarge /\ JsLe(remainder, largeCap)
             THEN IF ExceedsSixtyPercent(remainder, regCap)
                     \/ RegularTruckCostAboveOne(remainder, regCap)
                  THEN [regular |-> regular0, large |-> 1]
                  ELSE [regular |-> regular0, large |-> 0]
             ELSE [regular |-> regular0, large |-> 0]
        ELSE [regular |-> regular0, large |-> 0]

\* The cost branch (lines 230-257): the regular and the large trucks.
CostStrategy(packages, regCap, largeCap, useLarge) ==
    LET regular0 == JsFloorDiv(packages, regCap)
        remainder == JsMod(packages, regCap)
    IN  IF JsGt(remainder, 0)
        THEN IF useLarge /\ JsLe(remainder, largeCap)
             THEN IF ExceedsSixtyPercent(remainder, regCap)
                     \/ RegularTruckCostAboveOne(remainder, regCap)
                  THEN [regular |-> regular0, large |-> 1]
                  ELSE [regular |-> JsAdd(regular0, 1), large |-> 0]
             ELSE [regular |-> JsAdd(regular0, 1), large |-> 0]
        ELSE [regular |-> regular0, large |-> 0]

\* CapacityStrategy with one regular truck for every remainder, whether it
\* fits the truck or not.
CapacityStrategyNoFitCheck(packages, regCap, largeCap, useLarge) ==
    IF useLarge
    THEN LET large0 == JsFloorDiv(packages, largeCap)
             remainder == JsMod(packages, largeCap)
         IN  IF JsGt(remainder, 0)
             THEN [regular |-> 1, large |-> large0]
             ELSE [regular |-> 0, large |-> large0]
    ELSE [regular |-> JsCeilDiv(packages, regCap), large |-> 0]

\* CapacityStrategy with remainingPackages < regularTruckCapacity for <=.
CapacityStrategyStrictFit(packages, regCap, largeCap, useLarge) ==
    IF useLarge
    THEN LET large0 == JsFloorDiv(packages, largeCap)
             remainder == JsMod(packages, largeCap)
         IN  IF JsGt(remainder, 0)
             THEN IF JsLe(remainder, regCap) /\ remainder # regCap
                  THEN [regular |-> 1, large |-> large0]
                  ELSE [regular |-> 0, large |-> JsAdd(large0, 1)]
             ELSE [regular |-> 0, large |-> large0]
    ELSE [regular |-> JsCeilDiv(packages, regCap), large |-> 0]

\* The capacity branch (lines 258-278): the regular and the large trucks.
CapacityStrategy(packages, regCap, largeCap, useLarge) ==
    IF useLarge
    THEN LET large0 == JsFloorDiv(packages, largeCap)
             remainder == JsMod(packages, largeCap)
         IN  IF JsGt(remainder, 0)
             THEN IF JsLe(remainder, regCap)
                  THEN [regular |-> 1, large |-> large0]
                  ELSE [regular |-> 0, large |-> JsAdd(large0, 1)]
             ELSE [regular |-> 0, large |-> large0]
    ELSE [regular |-> JsCeilDiv(packages, regCap), large |-> 0]

\* Recommendation with useLargeTrucks not consulted by the capacity branch.
RecommendationUngated(packages, strategy, useLarge, regCap, largeCap) ==
    IF strategy = "cost"
    THEN CostStrategy(packages, regCap, largeCap, useLarge)
    ELSE CapacityStrategy(packages, regCap, largeCap, TRUE)

\* Lines 226-283: the heuristic recommendation of a day with packages # 0.
Recommendation(packages, strategy, useLarge, regCap, largeCap) ==
    IF strategy = "cost"
    THEN CostStrategy(packages, regCap, largeCap, useLarge)
    ELSE CapacityStrategy(packages, regCap, largeCap, useLarge)

\* Assigned with the override of the large trucks not applied.
AssignedRegularOnly(day, recommended, manual) ==
    IF day \in DOMAIN manual
    THEN [regular |-> manual[day].regular, large |-> recommended.large]
    ELSE recommended

\* Lines 285-290: the regular and the large trucks assigned to a day.
Assigned(day, recommended, manual) ==
    IF day \in DOMAIN manual
    THEN [regular |-> manual[day].regular, large |-> manual[day].large]
    ELSE recommended

\* AssignedCapacity with the regular capacity applied to both truck classes.
AssignedCapacityOneRate(assigned, regCap, largeCap) ==
    JsAdd(JsMul(assigned.regular, regCap), JsMul(assigned.large, regCap))

\* Line 289.
AssignedCapacity(assigned, regCap, largeCap) ==
    JsAdd(JsMul(assigned.regular, regCap), JsMul(assigned.large, largeCap))

\* FinalRemainingPackages without Math.max(0, ...).
FinalRemainingPackagesUnclamped(packages, assignedCapacity) ==
    JsSub(packages, assignedCapacity)

\* Line 290: Math.max(0, packages - assignedCapacity).
FinalRemainingPackages(packages, assignedCapacity) ==
    JsMax0(JsSub(packages, assignedCapacity))

\* RequirementOf without the early return of lines 212-224.
\* The body of the loop with the assigned counts written to the recommendation.
RequirementOfRecommendingAssigned(dayData, strategy, useLarge, regCap, largeCap, manual) ==
    LET packages == Packages(dayData)
    IN  IF packages = 0
        THEN ZeroRequirement(dayData.day)
        ELSE LET rec == Recommendation(packages, strategy, useLarge, regCap, largeCap)
                 assigned == Assigned(dayData.day, rec, manual)
                 regularCapacity == JsMul(assigned.regular, regCap)
                 largeCapacity == JsMul(assigned.large, largeCap)
             IN  [day |-> dayData.day,
                  packages |-> packages,
                  regularTrucks |-> assigned.regular,
                  largeTrucks |-> assigned.large,
                  totalTrucks |-> JsAdd(assigned.regular, assigned.large),
                  regularCapacity |-> regularCapacity,
                  largeCapacity |-> largeCapacity,
                  totalCapacity |-> JsAdd(regularCapacity, largeCapacity),
                  assignedRegularTrucks |-> assigned.regular,
                  assignedLargeTrucks |-> assigned.large,
                  remainingPackages |->
                      FinalRemainingPackages(packages,
                          AssignedCapacity(assigned, regCap, largeCap))]

RequirementOfNoEarlyReturn(dayData, strategy, useLarge, regCap, largeCap, manual) ==
    LET packages == Packages(dayData)
        rec == Recommendation(packages, strategy, useLarge, regCap, largeCap)
        regularCapacity == JsMul(rec.regular, regCap)
        largeCapacity == JsMul(rec.large, largeCap)
        assigned == Assigned(dayData.day, rec, manual)
    IN  [day |-> dayData.day,
         packages |-> packages,
         regularTrucks |-> rec.regular,
         largeTrucks |-> rec.large,
         totalTrucks |-> JsAdd(rec.regular, rec.large),
         regularCapacity |-> regularCapacity,
         largeCapacity |-> largeCapacity,
         totalCapacity |-> JsAdd(regularCapacity, largeCapacity),
         assignedRegularTrucks |-> assigned.regular,
         assignedLargeTrucks |-> assigned.large,
         remainingPackages |->
             FinalRemainingPackages(packages,
                 AssignedCapacity(assigned, regCap, largeCap))]

\* The body of dataToProcess.forEach (lines 209-305).
RequirementOf(dayData, strategy, useLarge, regCap, largeCap, manual) ==
    LET packages == Packages(dayData)
    IN  IF packages = 0
        THEN ZeroRequirement(dayData.day)
        ELSE LET rec == Recommendation(packages, strategy, useLarge, regCap, largeCap)
                 regularCapacity == JsMul(rec.regular, regCap)
                 largeCapacity == JsMul(rec.large, largeCap)
                 assigned == Assigned(dayData.day, rec, manual)
             IN  [day |-> dayData.day,
                  packages |-> packages,
                  regularTrucks |-> rec.regular,
                  largeTrucks |-> rec.large,
                  totalTrucks |-> JsAdd(rec.regular, rec.large),
                  regularCapacity |-> regularCapacity,
                  largeCapacity |-> largeCapacity,
                  totalCapacity |-> JsAdd(regularCapacity, largeCapacity),
                  assignedRegularTrucks |-> assigned.regular,
                  assignedLargeTrucks |-> assigned.large,
                  remainingPackages |->
                      FinalRemainingPackages(packages,
                          AssignedCapacity(assigned, regCap, largeCap))]

\* forecastData.find(d => d.day === selectedDay): <<>> when there is none.
FindDay(data, day) ==
    LET hits == {i \in 1..Len(data) : data[i].day = day}
    IN  IF hits = {} THEN <<>>
        ELSE <<data[CHOOSE i \in hits : \A j \in hits : i <= j]>>

\* Lines 186-204: the days the allocator processes.
DataToProcess(fd, terminal, day, tsd) ==
    IF terminal # "" /\ day # <<>> /\ tsd # <<>> THEN tsd
    ELSE IF terminal # "" /\ tsd # <<>> THEN fd
    ELSE IF day # <<>> THEN FindDay(fd, day[1])
    ELSE fd

\* calculateFleetRequirements pushing nothing for a day without packages.
CalculateFleetRequirementsSkippingEmpty(fd, strategy, useLarge, regCap, largeCap, terminal, day, tsd, manual) ==
    LET data == SelectSeq(DataToProcess(fd, terminal, day, tsd),
                          LAMBDA dayData : Packages(dayData) # 0)
    IN  [i \in 1..Len(data) |->
            RequirementOf(data[i], strategy, useLarge, regCap, largeCap, manual)]

\* calculateFleetRequirements: the list handed to setFleetRequirements.
CalculateFleetRequirements(fd, strategy, useLarge, regCap, largeCap, terminal, day, tsd, manual) ==
    LET data == DataToProcess(fd, terminal, day, tsd)
    IN  [i \in 1..Len(data) |->
            RequirementOf(data[i], strategy, useLarge, regCap, largeCap, manual)]

\* r.assignedRegularTrucks !== undefined ? r.assignedRegularTrucks : r.regularTrucks
\* (lines 313, 329, 335, 341), and the same for large trucks.
AssignedRegularOf(r) ==
    IF "assignedRegularTrucks" \in DOMAIN r THEN r.assignedRegularTrucks
    ELSE r.regularTrucks

AssignedLargeOf(r) ==
    IF "assignedLargeTrucks" \in DOMAIN r THEN r.assignedLargeTrucks
    ELSE r.largeTrucks

\* r.remainingPackages || 0 (lines 333, 344): undefined, 0 and NaN all read 0.
RemainingOf(r) ==
    IF "remainingPackages" \in DOMAIN r /\ ~IsNaN(r.remainingPackages)
    THEN r.remainingPackages ELSE 0

\* Lines 310-318: the list handed to onFleetDataChange.
FleetDataForChart(requirements) ==
    [i \in 1..Len(requirements) |->
        [day |-> requirements[i].day,
         packages |-> requirements[i].packages,
         totalTrucks |-> JsAdd(AssignedRegularOf(requirements[i]),
                               AssignedLargeOf(requirements[i]))]]

(***************************************************************************)
(* handleManualAssignment, src/unnamed/part_005:347-357.                   *)
(***************************************************************************)
Digits == <<"0", "1", "2", "3", "4", "5", "6", "7", "8", "9">>

IsDigit(c) == \E i \in 1..Len(Digits) : Digits[i] = c

DigitValue(c) == (CHOOSE i \in 1..Len(Digits) : Digits[i] = c) - 1

\* The text without its leading blanks.
RECURSIVE SkipBlanks(_)
SkipBlanks(text) ==
    IF text # <<>> /\ Head(text) = " " THEN SkipBlanks(Tail(text)) ELSE text

\* The value of the longest prefix of digits, continuing from acc.
RECURSIVE DigitPrefix(_, _)
DigitPrefix(text, acc) ==
    IF text # <<>> /\ IsDigit(Head(text))
    THEN DigitPrefix(Tail(text), acc * 10 + DigitValue(Head(text)))
    ELSE acc

\* parseInt(value): blanks are skipped, a sign is read, then the digits up to
\* the first other character; NaN when no digit follows.  A text is a sequence
\* of one-character strings.
ParseInt(text) ==
    LET t == SkipBlanks(text)
        signed == t # <<>> /\ Head(t) \in {"-", "+"}
        body == IF signed THEN Tail(t) ELSE t
    IN  IF body = <<>> \/ ~IsDigit(Head(body)) THEN NaN
        ELSE IF signed /\ Head(t) = "-" THEN 0 - DigitPrefix(body, 0)
        ELSE DigitPrefix(body, 0)

\* const numValue = parseInt(value) || 0;
NumValue(text) ==
    LET n == ParseInt(text) IN IF IsNaN(n) \/ n = 0 THEN 0 ELSE n

\* The updater with the other days of prev dropped.
ManualAssignmentsAfterOnlyDay(prev, day, type, text) ==
    [d \in {day} |->
        [regular |-> IF type = "regular" THEN NumValue(text)
                     ELSE IF day \in DOMAIN prev THEN prev[day].regular ELSE 0,
         large |-> IF type = "large" THEN NumValue(text)
                   ELSE IF day \in DOMAIN prev THEN prev[day].large ELSE 0]]

\* prev[day]?.regular || 0 and prev[day]?.large || 0
PrevRegular(prev, day) == IF day \in DOMAIN prev THEN prev[day].regular ELSE 0

PrevLarge(prev, day) == IF day \in DOMAIN prev THEN prev[day].large ELSE 0

\* The updater handed to setManualAssignments.
ManualAssignmentsAfter(prev, day, type, text) ==
    [d \in DOMAIN prev \cup {day} |->
        IF d = day
        THEN [regular |-> IF type = "regular" THEN NumValue(text)
                          ELSE PrevRegular(prev, day),
              large |-> IF type = "large" THEN NumValue(text)
                        ELSE PrevLarge(prev, day)]
        ELSE prev[d]]

(***************************************************************************)
(* Inputs of the FleetDemandForecast component.                            *)
(***************************************************************************)
\* <<regularTruckCapacity, largeTruckCapacityMax>> of a valid configuration
\* (positive capacities): a large truck bigger than a regular one, as the
\* defaults 2200 / 2800 are, and a smaller one.
CapacityConfigs == {<<3, 5>>, <<3, 1>>}

\* The configurations the props admit beyond those: a capacity of 0.
AnyCapacityConfigs == CapacityConfigs \cup {<<0, 5>>, <<3, 0>>}

\* The forecast lists the parent hands down: one DailyForecastData per day
\* 1..n, each with the forecast DemandForecastChart computed for it.
ForecastLists ==
    UNION {[1..n -> 0..MaxPackages] : n \in 0..MaxDays}

ForecastList(packagesOfDay) ==
    [d \in 1..Len(packagesOfDay) |-> [forecast |-> packagesOfDay[d], day |-> d]]

\* What a user may type into an assignment field.
InputTexts == {<<>>, <<"-", "1">>, <<" ", "2", ".", "5">>}

(***************************************************************************)
(* The FleetDemandForecast component as a state machine.  Every action     *)
(* ends with the effect of lines 179-322, which recomputes                 *)
(* fleetRequirements from the new props and state and notifies the parent. *)
(***************************************************************************)
\* DemandForecastChart.tsx:32-37, the chart as mounted.
ChartIdle ==
    /\ loading = TRUE
    /\ historicalData = <<>>
    /\ combinedData = <<>>
    /\ maxValue = 320
    /\ selectedMonths = 3
    /\ responses = <<>>
    /\ chartTerminal = ""
    /\ runs = <<>>

EngineIdle ==
    /\ ChartIdle
    /\ historical = <<>>
    /\ historicalMeta = <<>>
    /\ filter = "all"
    /\ targetYear = 2025
    /\ targetMonth = 11
    /\ forecast = <<>>

\* The effect of lines 179-322 on the state after the step.
Recalculate ==
    /\ fleetRequirements' =
           CalculateFleetRequirements(forecastData', optimizationStrategy',
               useLargeTrucks', regularTruckCapacity', largeTruckCapacityMax',
               selectedTerminal', selectedDay', terminalSpecificData',
               manualAssignments')
    /\ fleetData' = FleetDataForChart(fleetRequirements')

\* Lines 35-61 and LogisticsSection (CityHeatmap.tsx:477-479): the component
\* with the capacities cfg and the sender terminal `terminal`, no day selected,
\* no request in flight and no forecast handed down yet.
Component(cfg, terminal) ==
    /\ pc = "fleet"
    /\ regularTruckCapacity = cfg[1]
    /\ largeTruckCapacityMax = cfg[2]
    /\ forecastData = <<>>
    /\ optimizationStrategy = "cost"
    /\ useLargeTrucks = TRUE
    /\ selectedTerminal = terminal
    /\ selectedDay = <<>>
    /\ terminalSpecificData = <<>>
    /\ manualAssignments = <<>>
    /\ fleetRequirements = <<>>
    /\ fleetData = <<>>
    /\ selectedMonth = 12
    /\ selectedYear = 2025
    /\ fleetLoading = FALSE
    /\ pendingFetches = <<>>
    /\ EngineIdle

\* The component as mounted: no terminal is selected (line 45).
Mounted(cfg) == Component(cfg, "")

\* The component once the user has chosen a sender terminal and its data has
\* arrived: the state in which the assignment table is on display (lines
\* 510-528).
TerminalChosen(cfg) == Component(cfg, "WA")

Init == \E cfg \in CapacityConfigs : TerminalChosen(cfg)

InitProps == \E cfg \in AnyCapacityConfigs : TerminalChosen(cfg)

\* The parent passes a new forecast (DemandForecastChart.tsx:53-57 hands over
\* only a non-empty list).
ForecastDataArrives(lists) ==
    /\ pc = "fleet"
    /\ \E fd \in lists :
           /\ Len(fd) > 0
           /\ forecastData' = fd
    /\ UNCHANGED <<regularTruckCapacity, largeTruckCapacityMax, optimizationStrategy,
                   useLargeTrucks, selectedTerminal, selectedDay,
                   terminalSpecificData, manualAssignments, selectionVars>>
    /\ Recalculate
    /\ UNCHANGED <<engineVars, pc>>

SetForecastData == ForecastDataArrives({ForecastList(fd) : fd \in ForecastLists})

\* Line 487.
SetOptimizationStrategy ==
    /\ pc = "fleet"
    /\ \E s \in {"cost", "capacity"} : optimizationStrategy' = s
    /\ UNCHANGED <<regularTruckCapacity, largeTruckCapacityMax, forecastData,
                   useLargeTrucks, selectedTerminal, selectedDay,
                   terminalSpecificData, manualAssignments, selectionVars>>
    /\ Recalculate
    /\ UNCHANGED <<engineVars, pc>>

\* Line 499.
SetUseLargeTrucks ==
    /\ pc = "fleet"
    /\ \E b \in BOOLEAN : useLargeTrucks' = b
    /\ UNCHANGED <<regularTruckCapacity, largeTruckCapacityMax, forecastData,
                   optimizationStrategy, selectedTerminal, selectedDay,
                   terminalSpecificData, manualAssignments, selectionVars>>
    /\ Recalculate
    /\ UNCHANGED <<engineVars, pc>>

\* Lines 510-528: the assignment table is on display when a terminal is
\* selected, no terminal data is loading and there is a row to show.
TableDisplayed == selectedTerminal # "" /\ ~fleetLoading /\ Len(fleetRequirements) > 0

\* Lines 653 and 663: an assignment field of a displayed row is edited, the
\* text typed being one of `texts`.
ManualAssignmentTyped(texts) ==
    /\ pc = "fleet"
    /\ TableDisplayed
    /\ \E i \in 1..Len(fleetRequirements), type \in {"regular", "large"},
          text \in texts :
           manualAssignments' =
               ManualAssignmentsAfter(manualAssignments,
                                      fleetRequirements[i].day, type, text)
    /\ UNCHANGED <<regularTruckCapacity, largeTruckCapacityMax, forecastData,
                   optimizationStrategy, useLargeTrucks, selectedTerminal,
                   selectedDay, terminalSpecificData, selectionVars>>
    /\ Recalculate
    /\ UNCHANGED <<engineVars, pc>>

HandleManualAssignment == ManualAssignmentTyped(InputTexts)

Next ==
    \/ SetForecastData
    \/ SetOptimizationStrategy
    \/ SetUseLargeTrucks
    \/ HandleManualAssignment

\* The component under a valid configuration.
Spec == Init /\ [][Next]_vars

\* The component under any configuration its props admit.
SpecProps == InitProps /\ [][Next]_vars

(***************************************************************************)
(* The selectors of the component (lines 408-478) and fetchTerminalData    *)
(* (lines 104-176).  A change of terminal, month, year or day re-runs the  *)
(* effect of line 104, which clears terminalSpecificData when no terminal  *)
(* is selected and otherwise starts a request whose answer arrives in a    *)
(* later step; the allocator effect runs after every step.                 *)
(* terminalMonthData is written by the fetch and read by nothing, and is   *)
(* left out of the state.                                                  *)
(***************************************************************************)
\* Requests of fetchTerminalData in flight at a time.
MaxInFlight == 1

Terminals == {"WA", "KR"}

\* Days picked in the day selector.
SelectableDays == {1}

SelectableMonths == {11, 12}

SelectableYears == {2025, 2026}

\* Lines 146-148: the forecast of a terminal's day, Math.round of a mean of
\* positive counts, or 0 when there is none.
TerminalForecasts == {0, 4}

\* The forecasts the chart hands down while the selectors are used.
SelectionForecasts == {ForecastList(<<4, 4>>), ForecastList(<<7, 0>>)}

\* What is typed into an assignment field while the selectors are used: a
\* count, and a cleared field.
SelectionTexts == {<<"2">>, <<>>}

\* The effect of lines 104-176 and then that of lines 179-322, on the state
\* after a change of selectedTerminal, selectedMonth, selectedYear or
\* selectedDay.
SelectionChanged ==
    /\ IF selectedTerminal' = ""
       THEN /\ terminalSpecificData' = <<>>
            /\ UNCHANGED <<fleetLoading, pendingFetches>>
       ELSE /\ Len(pendingFetches) < MaxInFlight
            /\ fleetLoading' = TRUE
            /\ pendingFetches' = Append(pendingFetches, selectedDay')
            /\ UNCHANGED terminalSpecificData
    /\ UNCHANGED <<regularTruckCapacity, largeTruckCapacityMax, forecastData,
                   optimizationStrategy, useLargeTrucks, manualAssignments>>
    /\ Recalculate
    /\ UNCHANGED <<engineVars, pc>>

\* Lines 414-419.
SetSelectedTerminal ==
    /\ pc = "fleet"
    /\ \E t \in (Terminals \cup {""}) \ {selectedTerminal} :
           /\ selectedTerminal' = t
           /\ selectedDay' = IF t = "" THEN <<>> ELSE selectedDay
    /\ UNCHANGED <<selectedMonth, selectedYear>>
    /\ SelectionChanged

\* Line 438.
SetSelectedMonth ==
    /\ pc = "fleet"
    /\ \E m \in SelectableMonths \ {selectedMonth} : selectedMonth' = m
    /\ UNCHANGED <<selectedTerminal, selectedYear, selectedDay>>
    /\ SelectionChanged

\* Line 450.
SetSelectedYear ==
    /\ pc = "fleet"
    /\ \E y \in SelectableYears \ {selectedYear} : selectedYear' = y
    /\ UNCHANGED <<selectedTerminal, selectedMonth, selectedDay>>
    /\ SelectionChanged

\* Line 468: a day, or "Select Day" for none.
SetSelectedDay ==
    /\ pc = "fleet"
    /\ \E d \in ({<<>>} \cup {<<day>> : day \in SelectableDays}) \ {selectedDay} :
           selectedDay' = d
    /\ UNCHANGED <<selectedTerminal, selectedMonth, selectedYear>>
    /\ SelectionChanged

\* Lines 154-174: the answers to a run of fetchTerminalData have arrived, in
\* any order among the runs in flight; the run ends with the data of the day
\* it was started with, or null when it was started with none.
TerminalDataArrives ==
    /\ pc = "fleet"
    /\ \E i \in 1..Len(pendingFetches) :
           /\ pendingFetches' =
                  SubSeq(pendingFetches, 1, i - 1)
                      \o SubSeq(pendingFetches, i + 1, Len(pendingFetches))
           /\ IF pendingFetches[i] = <<>>
              THEN terminalSpecificData' = <<>>
              ELSE \E f \in TerminalForecasts :
                       terminalSpecificData' =
                           <<[forecast |-> f, day |-> pendingFetches[i][1]]>>
    /\ fleetLoading' = FALSE
    /\ UNCHANGED <<regularTruckCapacity, largeTruckCapacityMax, forecastData,
                   optimizationStrategy, useLargeTrucks, manualAssignments,
                   selectedTerminal, selectedDay, selectedMonth, selectedYear>>
    /\ Recalculate
    /\ UNCHANGED <<engineVars, pc>>

SetSelectionForecast == ForecastDataArrives(SelectionForecasts)

TypeAssignment == ManualAssignmentTyped(SelectionTexts)

InitSelection == Mounted(<<3, 5>>)

NextSelection ==
    \/ SetSelectionForecast
    \/ SetOptimizationStrategy
    \/ SetUseLargeTrucks
    \/ TypeAssignment
    \/ SetSelectedTerminal
    \/ SetSelectedMonth
    \/ SetSelectedYear
    \/ SetSelectedDay
    \/ TerminalDataArrives

\* The component from its mount, with its selectors.
SpecSelection == InitSelection /\ [][NextSelection]_vars

(***************************************************************************)
(* The calendar behind new Date(year, monthIndex, day): getDate() of day 0 *)
(* of the next month, and getDay() (0 = Sunday .. 6 = Saturday).  A day    *)
(* past the end of its month rolls over into the next one, as in Date.     *)
(***************************************************************************)
IsLeapYear(y) == (y % 4 = 0 /\ y % 100 # 0) \/ y % 400 = 0

\* Days of month m (1..12) of year y: new Date(y, m, 0).getDate().
DaysInMonth(y, m) ==
    IF m = 2 THEN (IF IsLeapYear(y) THEN 29 ELSE 28)
    ELSE IF m \in {4, 6, 9, 11} THEN 30
    ELSE 31

\* Days from 1 January 1970 to 1 January of year y >= 1970.
DaysBeforeYear(y) ==
    365 * (y - 1970)
        + ((y - 1) \div 4 - 1969 \div 4)
        - ((y - 1) \div 100 - 1969 \div 100)
        + ((y - 1) \div 400 - 1969 \div 400)

RECURSIVE DaysBeforeMonth(_, _)
DaysBeforeMonth(y, m) ==
    IF m = 1 THEN 0 ELSE DaysBeforeMonth(y, m - 1) + DaysInMonth(y, m - 1)

\* new Date(y, m, d).getDay(): the month number taken as a month index.
DayOfWeekOfNextMonth(y, m, d) ==
    (4 + DaysBeforeYear(y) + DaysBeforeMonth(y, m) + DaysInMonth(y, m) + (d - 1)) % 7

\* new Date(y, m - 1, d).getDay(); 1 January 1970 was a Thursday.
DayOfWeek(y, m, d) ==
    (4 + DaysBeforeYear(y) + DaysBeforeMonth(y, m) + (d - 1)) % 7

\* isWeekend, DemandForecastChart.tsx:81-85.
IsWeekend(y, m, d) == DayOfWeek(y, m, d) \in {0, 6}

\* The test of lines 91-96 and 203-204 on one day.
MatchesFilter(dayFilter, y, m, d) ==
    IF dayFilter = "weekend" THEN IsWeekend(y, m, d)
    ELSE IF dayFilter = "weekday" THEN ~IsWeekend(y, m, d)
    ELSE TRUE

(***************************************************************************)
(* Exact arithmetic for the averages of calculateForecast.  A number is a  *)
(* fraction [n, d] with d > 0 in lowest terms; the doubles of the code are *)
(* taken as the reals they approximate.  Only a forecastValue that is      *)
(* exactly k + 1/2 can round differently in doubles (to k for k + 1).      *)
(***************************************************************************)
RECURSIVE Gcd(_, _)
Gcd(a, b) == IF b = 0 THEN a ELSE Gcd(b, a % b)

Abs(x) == IF x < 0 THEN 0 - x ELSE x

Frac(n, d) ==
    LET g == Gcd(Abs(n), Abs(d))
    IN  IF d < 0 THEN [n |-> (0 - n) \div g, d |-> (0 - d) \div g]
        ELSE [n |-> n \div g, d |-> d \div g]

Whole(k) == [n |-> k, d |-> 1]

FAdd(a, b) == Frac(a.n * b.d + b.n * a.d, a.d * b.d)

FSub(a, b) == Frac(a.n * b.d - b.n * a.d, a.d * b.d)

FMul(a, b) == Frac(a.n * b.n, a.d * b.d)

\* a / b for b # 0
FDiv(a, b) == Frac(a.n * b.d, a.d * b.n)

FLe(a, b) == a.n * b.d <= b.n * a.d

\* Math.floor
FFloor(a) == a.n \div a.d

\* Math.round(x) = floor(x + 0.5)
FRound(a) == FFloor(FAdd(a, Frac(1, 2)))

(***************************************************************************)
(* calculateForecast, DemandForecastChart.tsx:122-231.                     *)
(***************************************************************************)
\* filterByDayType, lines 88-97.
FilterByDayType(data, y, m, dayFilter) ==
    IF dayFilter = "all" THEN data
    ELSE SelectSeq(data, LAMBDA day : MatchesFilter(dayFilter, y, m, day.day))

\* Lines 138-144.
FilteredHistorical(hist, meta, dayFilter) ==
    [i \in 1..Len(hist) |->
        FilterByDayType(hist[i], meta[i].year, meta[i].month, dayFilter)]

\* monthData.map(d => d.value).filter(v => v > 0)
PositiveValues(monthData) ==
    LET positive == SelectSeq(monthData, LAMBDA day : day.value > 0)
    IN  [i \in 1..Len(positive) |-> positive[i].value]

RECURSIVE Flat(_)
Flat(batches) ==
    IF batches = <<>> THEN <<>> ELSE Head(batches) \o Flat(Tail(batches))

\* values.reduce((a, b) => a + b, 0)
RECURSIVE SumOf(_)
SumOf(values) ==
    LET n == Len(values)
    IN  IF n = 0 THEN 0
        ELSE IF n = 1 THEN values[1]
        ELSE SumOf(SubSeq(values, 1, n \div 2)) + SumOf(SubSeq(values, n \div 2 + 1, n))

\* values.length > 0 ? sum / values.length : otherwise
AverageOr(values, otherwise) ==
    IF Len(values) > 0 THEN Frac(SumOf(values), Len(values)) ELSE otherwise

\* Line 147: the positive values of the filtered history, pooled.
AllValues(filtered) == PositiveValues(Flat(filtered))

\* Lines 148-150.
OverallAverage(filtered) == AverageOr(AllValues(filtered), Whole(0))

\* Lines 153-156.
MonthlyAverages(filtered) ==
    [i \in 1..Len(filtered) |-> AverageOr(PositiveValues(filtered[i]), Whole(0))]

RECURSIVE FSum(_)
FSum(fracs) ==
    LET n == Len(fracs)
    IN  IF n = 0 THEN Whole(0)
        ELSE IF n = 1 THEN fracs[1]
        ELSE FAdd(FSum(SubSeq(fracs, 1, n \div 2)), FSum(SubSeq(fracs, n \div 2 + 1, n)))

\* The slope with sumXY weighted by idx instead of idx + 1.
TrendZeroBasedWeights(monthlyAverages) ==
    LET n == Len(monthlyAverages)
        sumX == (n * (n + 1)) \div 2
        sumY == FSum(monthlyAverages)
        sumXY == FSum([i \in 1..n |-> FMul(Whole(i - 1), monthlyAverages[i])])
        sumXX == (n * (n + 1) * (2 * n + 1)) \div 6
    IN  IF n > 1
        THEN FDiv(FSub(FMul(Whole(n), sumXY), FMul(Whole(sumX), sumY)),
                  Whole(n * sumXX - sumX * sumX))
        ELSE Whole(0)

\* The slope against the positions counted from the newest batch.
TrendNewestFirst(monthlyAverages) ==
    LET n == Len(monthlyAverages)
        sumX == (n * (n + 1)) \div 2
        sumY == FSum(monthlyAverages)
        sumXY == FSum([i \in 1..n |-> FMul(Whole((n + 1) - i), monthlyAverages[i])])
        sumXX == (n * (n + 1) * (2 * n + 1)) \div 6
    IN  IF n > 1
        THEN FDiv(FSub(FMul(Whole(n), sumXY), FMul(Whole(sumX), sumY)),
                  Whole(n * sumXX - sumX * sumX))
        ELSE Whole(0)

\* Lines 158-167: the least-squares slope of the monthly averages.
Trend(monthlyAverages) ==
    LET n == Len(monthlyAverages)
        sumX == (n * (n + 1)) \div 2
        sumY == FSum(monthlyAverages)
        sumXY == FSum([i \in 1..n |-> FMul(Whole(i), monthlyAverages[i])])
        sumXX == (n * (n + 1) * (2 * n + 1)) \div 6
    IN  IF n > 1
        THEN FDiv(FSub(FMul(Whole(n), sumXY), FMul(Whole(sumX), sumY)),
                  Whole(n * sumXX - sumX * sumX))
        ELSE Whole(0)

\* Lines 170-185, dayOfWeekPatterns: a key for every day of the week met in the
\* filtered history, holding the positive values observed on it.
DayOfWeekPatterns(filtered, meta) ==
    LET tagged == Flat([i \in 1..Len(filtered) |->
                          [j \in 1..Len(filtered[i]) |->
                              [value |-> filtered[i][j].value,
                               dow |-> DayOfWeek(meta[i].year, meta[i].month,
                                                 filtered[i][j].day)]]])
    IN  [dow \in {tagged[k].dow : k \in 1..Len(tagged)} |->
            PositiveValues(SelectSeq(tagged, LAMBDA e : e.dow = dow))]

\* Lines 188-194, dayOfWeekAverages: the mean of each pattern, overallAverage
\* for an empty one.
DayOfWeekAverages(patterns, overallAverage) ==
    [dow \in DOMAIN patterns |-> AverageOr(patterns[dow], overallAverage)]

\* Line 207: overallAverage + trend * (filteredHistorical.length + 1)
BaseForecast(filtered) ==
    FAdd(OverallAverage(filtered),
         FMul(Trend(MonthlyAverages(filtered)), Whole(Len(filtered) + 1)))

\* Lines 210-214 with the two weights exchanged.
ForecastValueWeightsSwapped(dayOfWeekAverages, dow, baseForecast) ==
    IF dow \in DOMAIN dayOfWeekAverages /\ dayOfWeekAverages[dow].n # 0
    THEN FAdd(FMul(dayOfWeekAverages[dow], Frac(3, 10)), FMul(baseForecast, Frac(7, 10)))
    ELSE baseForecast

\* Lines 210-214: the blend is taken when dayOfWeekAverages[dayOfWeek] is
\* truthy, that is present and not 0.
ForecastValue(dayOfWeekAverages, dow, baseForecast) ==
    IF dow \in DOMAIN dayOfWeekAverages /\ dayOfWeekAverages[dow].n # 0
    THEN FAdd(FMul(dayOfWeekAverages[dow], Frac(7, 10)), FMul(baseForecast, Frac(3, 10)))
    ELSE baseForecast

\* stdDev with the fallback 0.2 * overallAverage taken also for exactly 2
\* positive values.
StdDevSquaredFallbackAtTwo(filtered) ==
    LET values == AllValues(filtered)
        mean == OverallAverage(filtered)
    IN  IF Len(values) > 2
        THEN FDiv(FSum([i \in 1..Len(values) |->
                          FMul(FSub(Whole(values[i]), mean),
                               FSub(Whole(values[i]), mean))]),
                  Whole(Len(values)))
        ELSE FMul(FMul(mean, Frac(1, 5)), FMul(mean, Frac(1, 5)))

\* Lines 217-219, squared: the population variance of the pooled values, or
\* (overallAverage * 0.2) squared when there are fewer than two of them.
StdDevSquared(filtered) ==
    LET values == AllValues(filtered)
        mean == OverallAverage(filtered)
    IN  IF Len(values) > 1
        THEN FDiv(FSum([i \in 1..Len(values) |->
                          FMul(FSub(Whole(values[i]), mean),
                               FSub(Whole(values[i]), mean))]),
                  Whole(Len(values)))
        ELSE FMul(FMul(mean, Frac(1, 5)), FMul(mean, Frac(1, 5)))

\* The largest of a finite set of integers that holds 0.
Largest(S) == CHOOSE k \in S : \A j \in S : j <= k

\* Math.max(0, Math.round(x))
ClampedRound(x) == IF FRound(x) > 0 THEN FRound(x) ELSE 0

\* Math.round(x - sqrt(sdSquared)) without the Math.max(0, ...) around it.
RoundBelowUnclamped(x, sdSquared) ==
    LET a == FAdd(x, Frac(1, 2))
        low == FFloor(a) - FFloor(sdSquared) - 2
    IN  Largest({low} \cup
            {k \in low..FFloor(a) :
                LET gap == FSub(a, Whole(k))
                IN  gap.n >= 0 /\ FLe(sdSquared, FMul(gap, gap))})

\* Math.max(0, Math.round(x - sqrt(sdSquared))): the largest k >= 1 with
\* k <= x + 1/2 - sqrt(sdSquared), or 0 when there is none.
ClampedRoundBelow(x, sdSquared) ==
    LET a == FAdd(x, Frac(1, 2))
        top == IF FFloor(a) > 0 THEN FFloor(a) ELSE 0
    IN  Largest({0} \cup
            {k \in 1..top :
                LET gap == FSub(a, Whole(k))
                IN  gap.n >= 0 /\ FLe(sdSquared, FMul(gap, gap))})

\* Math.max(0, Math.round(x + sqrt(sdSquared))): the largest k >= 1 with
\* k <= x + 1/2 + sqrt(sdSquared), or 0 when there is none; the square root is
\* below sdSquared + 1.
ClampedRoundAbove(x, sdSquared) ==
    LET a == FAdd(x, Frac(1, 2))
        top == FFloor(a) + FFloor(sdSquared) + 1
    IN  Largest({0} \cup
            {k \in 1..top :
                LET gap == FSub(Whole(k), a)
                IN  gap.n <= 0 \/ FLe(FMul(gap, gap), sdSquared)})

\* Lines 221-227: the point pushed for a day of the target month.
ForecastPoint(day, value, sdSquared) ==
    [forecast |-> ClampedRound(value),
     day |-> day,
     value |-> 0,
     forecastMin |-> ClampedRoundBelow(value, sdSquared),
     forecastMax |-> ClampedRoundAbove(value, sdSquared)]

\* The days of the loop of lines 197-228 that pass lines 203-204, ascending.
RECURSIVE TargetDays(_, _, _, _, _)
TargetDays(dayFilter, y, m, from, to) ==
    IF from > to THEN <<>>
    ELSE (IF MatchesFilter(dayFilter, y, m, from) THEN <<from>> ELSE <<>>)
             \o TargetDays(dayFilter, y, m, from + 1, to)

\* forecastValue for a day of each day of the week (the loop computes it from
\* the day of the week alone), for a history that is not empty.
ForecastValues(hist, meta, dayFilter) ==
    LET filtered == FilteredHistorical(hist, meta, dayFilter)
        averages == DayOfWeekAverages(DayOfWeekPatterns(filtered, meta),
                                      OverallAverage(filtered))
        baseForecast == BaseForecast(filtered)
    IN  [dow \in 0..6 |-> ForecastValue(averages, dow, baseForecast)]

\* calculateForecast with its list `forecast` (line 135) kept between calls
\* instead of created by each call.
CalculateForecastAccumulating(hist, meta, dayFilter, y, m) ==
    IF Len(hist) = 0 THEN <<>>
    ELSE LET days == TargetDays(dayFilter, y, m, 1, DaysInMonth(y, m))
             sdSquared == StdDevSquared(FilteredHistorical(hist, meta, dayFilter))
             valueOf == ForecastValues(hist, meta, dayFilter)
         IN  forecast \o [i \in 1..Len(days) |->
                 ForecastPoint(days[i], valueOf[DayOfWeek(y, m, days[i])], sdSquared)]

\* calculateForecast without the early return of line 129.
CalculateForecastNoEmptyCheck(hist, meta, dayFilter, y, m) ==
    LET days == TargetDays(dayFilter, y, m, 1, DaysInMonth(y, m))
        sdSquared == StdDevSquared(FilteredHistorical(hist, meta, dayFilter))
        valueOf == ForecastValues(hist, meta, dayFilter)
    IN  [i \in 1..Len(days) |->
            ForecastPoint(days[i], valueOf[DayOfWeek(y, m, days[i])], sdSquared)]

\* calculateForecast(historical, historicalMeta, filter, targetYear, targetMonth)
CalculateForecast(hist, meta, dayFilter, y, m) ==
    IF Len(hist) = 0 THEN <<>>
    ELSE LET days == TargetDays(dayFilter, y, m, 1, DaysInMonth(y, m))
             sdSquared == StdDevSquared(FilteredHistorical(hist, meta, dayFilter))
             valueOf == ForecastValues(hist, meta, dayFilter)
         IN  [i \in 1..Len(days) |->
                 ForecastPoint(days[i], valueOf[DayOfWeek(y, m, days[i])], sdSquared)]

(***************************************************************************)
(* The forecast engine as a machine: the chart holds the fetched history   *)
(* of the months before the target month, and the fetch ends by handing    *)
(* it to calculateForecast and storing the result.                         *)
(***************************************************************************)
\* A month of the /daily endpoint: one entry per calendar day, 0 where no
\* packet was counted; the counted days are the first ones of the month.
MonthBatch(y, m, observed) ==
    [d \in 1..DaysInMonth(y, m) |->
        [day |-> d, value |-> IF d <= Len(observed) THEN observed[d] ELSE 0]]

\* Daily counts seen in a month with data.
HistoryValues == {0, 1, 4}

\* The observed days of a month with data: at least one count is positive.
Observations ==
    {o \in [1..MaxObsDay -> HistoryValues] : \E d \in 1..MaxObsDay : o[d] > 0}

\* A month in which every day counted the same number of packets.
UniformBatch(y, m, v) == [d \in 1..DaysInMonth(y, m) |-> [day |-> d, value |-> v]]

\* Months of the window before the target months, oldest first.
HistoryMonths ==
    <<[year |-> 2025, month |-> 6], [year |-> 2025, month |-> 8], [year |-> 2025, month |-> 10]>>

\* Target months: the selectors offer any month of the current and later years.
TargetMonths == {[year |-> 2025, month |-> 11], [year |-> 2025, month |-> 12]}

DayTypeFilters == {"all", "weekday", "weekend"}

\* The months of the window that made it into the history, oldest first.
RECURSIVE KeptMonths(_, _)
KeptMonths(kept, i) ==
    IF i > Len(HistoryMonths) THEN <<>>
    ELSE (IF i \in kept THEN <<HistoryMonths[i]>> ELSE <<>>) \o KeptMonths(kept, i + 1)

\* The histories drawn for the kept months: counts on the first days of each
\* month, or the same positive count on every day of every month.
Histories(meta) ==
    {[i \in 1..Len(meta) |-> MonthBatch(meta[i].year, meta[i].month, obs[i])] :
        obs \in [1..Len(meta) -> Observations]}
    \cup {[i \in 1..Len(meta) |-> UniformBatch(meta[i].year, meta[i].month, v)] :
        v \in HistoryValues \ {0}}

InitForecast ==
    /\ pc = "input"
    /\ regularTruckCapacity = 2200
    /\ largeTruckCapacityMax = 2800
    /\ forecastData = <<>>
    /\ optimizationStrategy = "cost"
    /\ useLargeTrucks = TRUE
    /\ selectedTerminal = ""
    /\ selectedDay = <<>>
    /\ terminalSpecificData = <<>>
    /\ manualAssignments = <<>>
    /\ fleetRequirements = <<>>
    /\ fleetData = <<>>
    /\ selectedMonth = 12
    /\ selectedYear = 2025
    /\ fleetLoading = FALSE
    /\ pendingFetches = <<>>
    /\ \E kept \in SUBSET (1..Len(HistoryMonths)) :
           /\ historicalMeta = KeptMonths(kept, 1)
           /\ historical \in Histories(historicalMeta)
    /\ filter \in DayTypeFilters
    /\ \E target \in TargetMonths :
           /\ targetYear = target.year
           /\ targetMonth = target.month
    /\ forecast = <<>>
    /\ ChartIdle

\* The call of line 286 on the drawn arguments; for an empty history the
\* function returns [] (line 129).
RunForecast ==
    /\ pc = "input"
    /\ forecast' = CalculateForecast(historical, historicalMeta, filter,
                                     targetYear, targetMonth)
    /\ pc' = "done"
    /\ UNCHANGED <<fleetVars, chartVars, historical, historicalMeta, filter, targetYear, targetMonth>>

\* A second call with the same arguments, made in the state the first call
\* left (forecastData now holds its result).
RunForecastAgain ==
    /\ pc = "done"
    /\ forecast' = CalculateForecast(historical, historicalMeta, filter,
                                     targetYear, targetMonth)
    /\ pc' = "again"
    /\ UNCHANGED <<fleetVars, chartVars, historical, historicalMeta, filter, targetYear, targetMonth>>

NextForecast == RunForecast \/ RunForecastAgain

SpecForecast == InitForecast /\ [][NextForecast]_vars

(***************************************************************************)
(* fetchHistoricalData, DemandForecastChart.tsx:233-374: one run of the    *)
(* effect.  The run requests the months of the window oldest first, keeps  *)
(* the responses that carry data, and after the last response computes the *)
(* forecast and what the chart draws.  Each await of a response is a step. *)
(***************************************************************************)
\* The values of the dependencies of the effect (line 374) a run starts with;
\* the run reads them from its closure until it ends.
Selection(months, terminal, dayFilter, y, m) ==
    [terminal |-> terminal, dayFilter |-> dayFilter, year |-> y, month |-> m,
     months |-> months]

\* Lines 244-250: the month `back` months before the target month.
WindowMonth(y, m, back) ==
    LET index == y * 12 + (m - 1) - back
    IN  [year |-> index \div 12, month |-> (index % 12) + 1]

\* Line 246: the k-th request of the loop `for (i = selectedMonths - 1; i >= 0; i--)`
\* asks for the month i + 1 months back.
RequestedMonth(y, m, months, k) == WindowMonth(y, m, (months - k) + 1)

\* What a request comes to: a response that is not OK, an error thrown by
\* fetch or by response.json(), or an OK response with its data: no entry, or
\* the days of the month with no count, or with a count on the first day.
Outcomes(y, m) ==
    {[data |-> <<>>, kind |-> "notOk"], [data |-> <<>>, kind |-> "thrown"],
     [data |-> <<>>, kind |-> "ok"]}
        \cup {[data |-> MonthBatch(y, m, <<v>>), kind |-> "ok"] : v \in HistoryValues}

\* Line 262 without the test for a positive value.
HasDataAnyValue(data) == Len(data) > 0

\* Line 262: result.data && result.data.length > 0 && result.data.some(d => d.value > 0)
HasData(data) == Len(data) > 0 /\ \E j \in 1..Len(data) : data[j].value > 0

\* list.find(d => d.day === day): <<>> when there is none.
FindByDay(list, day) ==
    LET found == SelectSeq(list, LAMBDA d : d.day = day)
    IN  IF found = <<>> THEN <<>> ELSE <<Head(found)>>

\* Lines 336-342.
ShouldInclude(day, forecastDay, lastMonthMeta, dayFilter, y, m) ==
    LET checkYear == IF forecastDay # <<>> THEN y ELSE lastMonthMeta.year
        checkMonth == IF forecastDay # <<>> THEN m ELSE lastMonthMeta.month
        isWeekendDay == IsWeekend(checkYear, checkMonth, day)
    IN  /\ ~(dayFilter = "weekend" /\ ~isWeekendDay)
        /\ ~(dayFilter = "weekday" /\ isWeekendDay)

\* Lines 345-351: value is historicalDay?.value || 0, the forecast fields are
\* those of forecastDay and are missing when there is none.
CombinedPoint(day, historicalDay, forecastDay) ==
    LET value == IF historicalDay # <<>> THEN historicalDay[1].value ELSE 0
    IN  IF forecastDay = <<>> THEN [day |-> day, value |-> value]
        ELSE [forecast |-> forecastDay[1].forecast,
              day |-> day, value |-> value,
              forecastMin |-> forecastDay[1].forecastMin,
              forecastMax |-> forecastDay[1].forecastMax]

\* Lines 328-353: the loop over the days from `day` to maxDays.
RECURSIVE Combined(_, _, _, _, _, _, _, _)
Combined(day, maxDays, lastMonth, fc, lastMonthMeta, dayFilter, y, m) ==
    IF day > maxDays THEN <<>>
    ELSE LET historicalDay == FindByDay(lastMonth, day)
             forecastDay == FindByDay(fc, day)
         IN  (IF /\ ShouldInclude(day, forecastDay, lastMonthMeta, dayFilter, y, m)
                 /\ (historicalDay # <<>> \/ forecastDay # <<>>)
              THEN <<CombinedPoint(day, historicalDay, forecastDay)>>
              ELSE <<>>)
                 \o Combined(day + 1, maxDays, lastMonth, fc, lastMonthMeta, dayFilter, y, m)

\* Lines 358-364: Math.ceil(max / 80) * 80 || 320
MaxValueOf(combined, fc) ==
    LET allValues == {combined[i].value : i \in 1..Len(combined)}
                         \cup {fc[i].forecast : i \in 1..Len(fc)}
                         \cup {fc[i].forecastMax : i \in 1..Len(fc)}
        max == IF allValues # {} THEN Largest(allValues) ELSE 320
        ceiled == ((max + 79) \div 80) * 80
    IN  IF ceiled # 0 THEN ceiled ELSE 320

\* Lines 273-364 as the values of the four set-state calls.
Display(hist, meta, dayFilter, y, m) ==
    IF Len(hist) = 0
    THEN [fc |-> <<>>, hd |-> <<>>, cd |-> <<>>, mv |-> 320]
    ELSE LET lastMonthMeta == meta[Len(meta)]
             daysInLastMonth == DaysInMonth(lastMonthMeta.year, lastMonthMeta.month)
             daysInForecastMonth == DaysInMonth(y, m)
             maxDays == IF daysInLastMonth > daysInForecastMonth
                        THEN daysInLastMonth ELSE daysInForecastMonth
             fc == CalculateForecast(hist, meta, dayFilter, y, m)
             hd == FilterByDayType(hist[Len(hist)], lastMonthMeta.year,
                                   lastMonthMeta.month, dayFilter)
             cd == Combined(1, maxDays, hd, fc, lastMonthMeta, dayFilter, y, m)
         IN  [fc |-> fc, hd |-> hd, cd |-> cd, mv |-> MaxValueOf(cd, fc)]

\* Lines 273-364: what a run that ends with the window (hist, meta) stores in
\* forecastData (fc), historicalData (hd), combinedData (cd) and maxValue (mv).
Displayed(fc, hd, cd, mv, hist, meta, dayFilter, y, m) ==
    IF Len(hist) = 0
    THEN fc = <<>> /\ hd = <<>> /\ cd = <<>> /\ mv = 320
    ELSE LET lastMonthMeta == meta[Len(meta)]
             daysInLastMonth == DaysInMonth(lastMonthMeta.year, lastMonthMeta.month)
             daysInForecastMonth == DaysInMonth(y, m)
             maxDays == IF daysInLastMonth > daysInForecastMonth
                        THEN daysInLastMonth ELSE daysInForecastMonth
         IN  /\ fc = CalculateForecast(hist, meta, dayFilter, y, m)
             /\ hd = FilterByDayType(hist[Len(hist)], lastMonthMeta.year,
                                     lastMonthMeta.month, dayFilter)
             /\ cd = Combined(1, maxDays, hd, fc, lastMonthMeta, dayFilter, y, m)
             /\ mv = MaxValueOf(cd, fc)

\* The selector of lines 442-451 offers 2, 3 and 6 months.
WindowLengths == {2, 3}

FetchTargets == {[year |-> 2025, month |-> 11], [year |-> 2026, month |-> 1]}

\* The window an earlier run of the effect ended with, for another terminal.
EarlierWindow(y, m) ==
    LET last == WindowMonth(y, m, 1)
    IN  [hist |-> <<MonthBatch(last.year, last.month, <<4>>)>>, meta |-> <<last>>]

\* A run starts (line 235) on the chart as mounted, or on what an earlier run
\* for another terminal left on display.
InitFetch ==
    /\ pc = "fetching"
    /\ regularTruckCapacity = 2200
    /\ largeTruckCapacityMax = 2800
    /\ forecastData = <<>>
    /\ optimizationStrategy = "cost"
    /\ useLargeTrucks = TRUE
    /\ selectedTerminal = ""
    /\ selectedDay = <<>>
    /\ terminalSpecificData = <<>>
    /\ manualAssignments = <<>>
    /\ fleetRequirements = <<>>
    /\ fleetData = <<>>
    /\ selectedMonth = 12
    /\ selectedYear = 2025
    /\ fleetLoading = FALSE
    /\ pendingFetches = <<>>
    /\ filter \in DayTypeFilters
    /\ \E target \in FetchTargets :
           /\ targetYear = target.year
           /\ targetMonth = target.month
    /\ selectedMonths \in WindowLengths
    /\ chartTerminal = ""
    /\ runs = <<Selection(selectedMonths, chartTerminal, filter, targetYear, targetMonth)>>
    /\ historical = <<>>
    /\ historicalMeta = <<>>
    /\ responses = <<>>
    /\ loading = TRUE
    /\ \E earlier \in {<<>>, EarlierWindow(targetYear, targetMonth).hist} :
           Displayed(forecast, historicalData, combinedData, maxValue, earlier,
                     EarlierWindow(targetYear, targetMonth).meta,
                     filter, targetYear, targetMonth)

\* The loop left at the first request that throws.
RunEndsOnThrow(kind, k, months) == k = months \/ kind = "thrown"

\* Lines 246-271: the loop goes on to line 273 after its last request, whatever
\* the requests came to (the try of lines 252-270 is inside the loop).
RunEnds(kind, k, months) == k = months

\* The response to the next request of the loop arrives (lines 257-270); the
\* one to the last request is followed by lines 273-370.
FetchResponse ==
    /\ pc = "fetching"
    /\ LET k == Len(responses) + 1
           requested == RequestedMonth(targetYear, targetMonth, selectedMonths, k)
       IN  \E outcome \in Outcomes(requested.year, requested.month) :
               /\ responses' = Append(responses, outcome)
               /\ IF outcome.kind = "ok" /\ HasData(outcome.data)
                  THEN /\ historical' = Append(historical, outcome.data)
                       /\ historicalMeta' = Append(historicalMeta, requested)
                  ELSE UNCHANGED <<historical, historicalMeta>>
               /\ IF ~RunEnds(outcome.kind, k, selectedMonths)
                  THEN /\ pc' = "fetching"
                       /\ UNCHANGED <<forecast, historicalData, combinedData,
                                      maxValue, loading, runs>>
                  ELSE /\ pc' = "shown"
                       /\ runs' = <<>>
                       /\ Displayed(forecast', historicalData', combinedData',
                                    maxValue', historical', historicalMeta',
                                    filter, targetYear, targetMonth)
                       /\ loading' = FALSE
    /\ UNCHANGED <<fleetVars, filter, targetYear, targetMonth, selectedMonths,
                   chartTerminal>>

NextFetch == FetchResponse

SpecFetch == InitFetch /\ [][NextFetch]_vars

(***************************************************************************)
(* LogisticsSection, CityHeatmap.tsx:477-501: DemandForecastChart and      *)
(* FleetDemandForecast side by side.  Every change of a selector of the    *)
(* chart starts a run of fetchHistoricalData (the effect of lines 233-374  *)
(* has no cleanup, so the runs already in flight go on); a run writes the  *)
(* chart's state when its last response has arrived, and the effect of     *)
(* lines 53-57 then hands the forecast to the parent, which passes it to   *)
(* FleetDemandForecast.                                                    *)
(***************************************************************************)
\* Runs of fetchHistoricalData in flight at the same time.
MaxRuns == 2

\* The options of the selectors of lines 442-510 that the user goes through.
ChartMonths == {2, 3}

ChartTerminals == {"", "WA"}

ChartFilters == {"all", "weekend"}

ForecastMonths == {11, 12}

ForecastYears == {2025, 2026}

Selections ==
    {Selection(months, terminal, dayFilter, y, m) :
        months \in ChartMonths, terminal \in ChartTerminals,
        dayFilter \in ChartFilters, y \in ForecastYears, m \in ForecastMonths}

\* What GET /api/packets/daily answers for a month (lines 253-260): over all
\* terminals, 4 packets on the first day of an even month and 1 on the first
\* day of an odd one; terminal WA has sent nothing.
Database(terminal, y, m) ==
    IF terminal = ""
    THEN MonthBatch(y, m, <<IF m % 2 = 0 THEN 4 ELSE 1>>)
    ELSE MonthBatch(y, m, <<0>>)

\* Lines 246-271: historicalMonths and historicalMonthsMeta after the first k
\* requests of a run.
RECURSIVE WindowAfter(_, _)
WindowAfter(run, k) ==
    IF k = 0 THEN [hist |-> <<>>, meta |-> <<>>]
    ELSE LET before == WindowAfter(run, k - 1)
             requested == RequestedMonth(run.year, run.month, run.months, k)
             data == Database(run.terminal, requested.year, requested.month)
         IN  IF HasData(data)
             THEN [hist |-> Append(before.hist, data),
                   meta |-> Append(before.meta, requested)]
             ELSE before

\* Lines 273-364: what a run with a given selection ends by storing.
DisplayOf ==
    [run \in Selections |->
        LET window == WindowAfter(run, run.months)
        IN  Display(window.hist, window.meta, run.dayFilter, run.year, run.month)]

\* The values the effect of line 374 depends on.
CurrentSelection ==
    Selection(selectedMonths, chartTerminal, filter, targetYear, targetMonth)

\* LogisticsSection as mounted: both components in their initial state
\* (FleetDemandForecast with its default capacities), the chart's effect
\* started for the initial selection.
InitDashboard ==
    /\ pc = "dashboard"
    /\ regularTruckCapacity = 2200
    /\ largeTruckCapacityMax = 2800
    /\ forecastData = <<>>
    /\ optimizationStrategy = "cost"
    /\ useLargeTrucks = TRUE
    /\ selectedTerminal = ""
    /\ selectedDay = <<>>
    /\ terminalSpecificData = <<>>
    /\ manualAssignments = <<>>
    /\ fleetRequirements = <<>>
    /\ fleetData = <<>>
    /\ selectedMonth = 12
    /\ selectedYear = 2025
    /\ fleetLoading = FALSE
    /\ pendingFetches = <<>>
    /\ historical = <<>>
    /\ historicalMeta = <<>>
    /\ filter = "all"
    /\ targetYear = 2025
    /\ targetMonth = 11
    /\ forecast = <<>>
    /\ loading = TRUE
    /\ historicalData = <<>>
    /\ combinedData = <<>>
    /\ maxValue = 320
    /\ selectedMonths = 3
    /\ responses = <<>>
    /\ chartTerminal = ""
    /\ runs = <<CurrentSelection>>

\* Lines 233-235 and 373-374: the effect runs after a change of one of its
\* dependencies and starts a fetch for the new selection.
SelectorChanged ==
    /\ pc = "dashboard"
    /\ Len(runs) < MaxRuns
    /\ CurrentSelection' # CurrentSelection
    /\ runs' = Append(runs, CurrentSelection')
    /\ loading' = TRUE
    /\ UNCHANGED <<fleetVars, historical, historicalMeta, forecast, historicalData,
                   combinedData, maxValue, responses, pc>>

\* Line 445.
SetSelectedMonths ==
    /\ selectedMonths' \in ChartMonths
    /\ UNCHANGED <<chartTerminal, filter, targetYear, targetMonth>>
    /\ SelectorChanged

\* Line 461.
SetChartTerminal ==
    /\ chartTerminal' \in ChartTerminals
    /\ UNCHANGED <<selectedMonths, filter, targetYear, targetMonth>>
    /\ SelectorChanged

\* Line 480.
SetDayTypeFilter ==
    /\ filter' \in ChartFilters
    /\ UNCHANGED <<selectedMonths, chartTerminal, targetYear, targetMonth>>
    /\ SelectorChanged

\* Line 496.
SetForecastMonth ==
    /\ targetMonth' \in ForecastMonths
    /\ UNCHANGED <<selectedMonths, chartTerminal, filter, targetYear>>
    /\ SelectorChanged

\* Line 508.
SetForecastYear ==
    /\ targetYear' \in ForecastYears
    /\ UNCHANGED <<selectedMonths, chartTerminal, filter, targetMonth>>
    /\ SelectorChanged

\* The sequence without its i-th element.
Without(seq, i) == SubSeq(seq, 1, i - 1) \o SubSeq(seq, i + 1, Len(seq))

\* Lines 53-57 with CityHeatmap.tsx:484 and 495: the chart's effect passes a
\* forecast that is not empty to setForecastData of the parent, whose state is
\* the forecastData prop of FleetDemandForecast; the allocator effect follows.
HandOver ==
    /\ forecastData' = IF Len(forecast') > 0 THEN forecast' ELSE forecastData
    /\ UNCHANGED <<regularTruckCapacity, largeTruckCapacityMax, optimizationStrategy,
                   useLargeTrucks, selectedTerminal, selectedDay,
                   terminalSpecificData, manualAssignments, selectionVars>>
    /\ Recalculate

\* The last response of one of the runs in flight arrives: lines 273-370 store
\* what the run computed from its own selection, and the effects follow.
RunFinishes ==
    /\ pc = "dashboard"
    /\ \E i \in 1..Len(runs) :
           /\ forecast' = DisplayOf[runs[i]].fc
           /\ historicalData' = DisplayOf[runs[i]].hd
           /\ combinedData' = DisplayOf[runs[i]].cd
           /\ maxValue' = DisplayOf[runs[i]].mv
           /\ runs' = Without(runs, i)
    /\ loading' = FALSE
    /\ HandOver
    /\ UNCHANGED <<historical, historicalMeta, filter, targetYear, targetMonth,
                   selectedMonths, responses, chartTerminal, pc>>

NextDashboard ==
    \/ SetSelectedMonths
    \/ SetChartTerminal
    \/ SetDayTypeFilter
    \/ SetForecastMonth
    \/ SetForecastYear
    \/ RunFinishes

SpecDashboard == InitDashboard /\ [][NextDashboard]_vars

(***************************************************************************)
(* The summary statistics of FleetDemandForecast (part_005:324-336),       *)
(* computed at each render from fleetRequirements and the capacity props.  *)
(***************************************************************************)
\* reduce((sum, r) => sum + value(r), 0), given the value of each element.
RECURSIVE Reduce(_, _)
Reduce(values, sum) ==
    IF values = <<>> THEN sum
    ELSE Reduce(Tail(values), JsAdd(sum, Head(values)))

PackagesOf(r) == r.packages

\* Line 328.
TotalPackages(reqs) ==
    Reduce([i \in 1..Len(reqs) |-> PackagesOf(reqs[i])], 0)

\* Line 329 with r.regularTrucks in place of the assigned count.
TotalRegularTrucksRecommended(reqs) ==
    Reduce([i \in 1..Len(reqs) |-> reqs[i].regularTrucks], 0)

\* Line 329.
TotalRegularTrucks(reqs) ==
    Reduce([i \in 1..Len(reqs) |-> AssignedRegularOf(reqs[i])], 0)

\* Line 330.
TotalLargeTrucks(reqs) ==
    Reduce([i \in 1..Len(reqs) |-> AssignedLargeOf(reqs[i])], 0)

\* Line 331.
TotalTrucks(reqs) == JsAdd(TotalRegularTrucks(reqs), TotalLargeTrucks(reqs))

\* Line 332.
TotalAssignedCapacity(reqs, regCap, largeCap) ==
    JsAdd(JsMul(TotalRegularTrucks(reqs), regCap), JsMul(TotalLargeTrucks(reqs), largeCap))

\* Line 333.
TotalRemainingPackages(reqs) ==
    Reduce([i \in 1..Len(reqs) |-> RemainingOf(reqs[i])], 0)

\* Line 334.
TotalAdditionalCapacity(reqs, regCap, largeCap) ==
    IF JsGt(TotalAssignedCapacity(reqs, regCap, largeCap), TotalPackages(reqs))
    THEN JsSub(TotalAssignedCapacity(reqs, regCap, largeCap), TotalPackages(reqs))
    ELSE 0

\* Line 335: the trucks assigned on a day, as the reducer reads them.
AssignedTotal(r) == JsAdd(AssignedRegularOf(r), AssignedLargeOf(r))

\* The reducer keeping the later of two days with the same count.
RECURSIVE PeakAmongLastWins(_, _)
PeakAmongLastWins(reqs, max) ==
    IF reqs = <<>> THEN max
    ELSE PeakAmongLastWins(Tail(reqs),
             IF JsGe(AssignedTotal(Head(reqs)), AssignedTotal(max)) THEN Head(reqs) ELSE max)

\* Line 335: reduce((max, r) => assigned(r) > assigned(max) ? r : max, ...)
RECURSIVE PeakAmong(_, _)
PeakAmong(reqs, max) ==
    IF reqs = <<>> THEN max
    ELSE PeakAmong(Tail(reqs),
             IF JsGt(AssignedTotal(Head(reqs)), AssignedTotal(max)) THEN Head(reqs) ELSE max)

\* Line 335: the reduction starts from the first requirement, or from
\* { day: 0, totalTrucks: 0 } when there is none.
PeakDay(reqs) ==
    IF reqs = <<>> THEN [day |-> 0, totalTrucks |-> 0] ELSE PeakAmong(reqs, reqs[1])

\* Line 336: totalTrucks / length, as a fraction, or 0.
AverageDailyTrucks(reqs) ==
    IF Len(reqs) > 0
    THEN (IF IsFinite(TotalTrucks(reqs)) THEN Frac(TotalTrucks(reqs), Len(reqs))
          ELSE Whole(TotalTrucks(reqs)))
    ELSE Whole(0)

(***************************************************************************)
(* Properties of the fleet allocator.                                      *)
(***************************************************************************)
Rows == 1..Len(fleetRequirements)

Overridden(day) == day \in DOMAIN manualAssignments

\* assignedRegularTrucks * regularCapacity + assignedLargeTrucks *
\* largeCapacityMax of a requirement, as its readers see the two counts.
CapacityAssignedTo(r) ==
    AssignedRegularOf(r) * regularTruckCapacity
        + AssignedLargeOf(r) * largeTruckCapacityMax

Max0(x) == IF x > 0 THEN x ELSE 0

\* C1: every FleetRequirement satisfies assignedCapacity + remainingPackages >=
\* packages, and remainingPackages = 0 whenever assignedCapacity >= packages.
C1_CapacityCheck ==
    \A i \in Rows :
        LET r == fleetRequirements[i]
        IN  /\ CapacityAssignedTo(r) + RemainingOf(r) >= r.packages
            /\ CapacityAssignedTo(r) >= r.packages => RemainingOf(r) = 0

\* A day with packages whose override covers the demand.
C1_Witness ==
    \E i \in Rows :
        /\ fleetRequirements[i].packages > 0
        /\ Overridden(fleetRequirements[i].day)
        /\ CapacityAssignedTo(fleetRequirements[i]) >= fleetRequirements[i].packages
        /\ fleetRequirements[i].remainingPackages = 0

\* The recommendation C4 describes for the cost strategy.
CostExpected(packages, regCap, largeCap, useLarge) ==
    LET base == packages \div regCap
        remainder == packages % regCap
    IN  IF remainder = 0 THEN <<base, 0>>
        ELSE IF useLarge /\ remainder <= largeCap /\ remainder * 10 > regCap * 6
        THEN <<base, 1>>
        ELSE <<base + 1, 0>>

CapacityExpected(packages, regCap, largeCap, useLarge) ==
    IF useLarge
    THEN LET base == packages \div largeCap
             remainder == packages % largeCap
         IN  IF remainder = 0 THEN <<0, base>>
             ELSE IF remainder <= regCap THEN <<1, base>>
             ELSE <<0, base + 1>>
    ELSE <<CHOOSE k \in 0..packages :
               k * regCap >= packages /\ (k - 1) * regCap < packages, 0>>

\* C5: under the capacity strategy, with packages > 0 and positive capacities:
\* with large trucks, largeTrucks = floor(packages / largeCapacityMax) and a
\* remainder > 0 takes one regular truck if it fits regularCapacity, else one
\* more large truck; without them, regularTrucks = ceil(packages /
\* regularCapacity) and largeTrucks = 0.
C5_CapacityStrategy ==
    (optimizationStrategy = "capacity"
     /\ regularTruckCapacity > 0 /\ largeTruckCapacityMax > 0) =>
        \A i \in Rows :
            LET r == fleetRequirements[i]
            IN  r.packages > 0 =>
                    <<r.regularTrucks, r.largeTrucks>> =
                        CapacityExpected(r.packages, regularTruckCapacity,
                                         largeTruckCapacityMax, useLargeTrucks)

\* The capacity strategy met a remainder that exactly fills a regular truck.
C5_Witness ==
    /\ optimizationStrategy = "capacity"
    /\ useLargeTrucks
    /\ \E i \in Rows :
           /\ fleetRequirements[i].packages % largeTruckCapacityMax
                  = regularTruckCapacity
           /\ fleetRequirements[i].regularTrucks = 1

\* C6: when useLargeTrucks is false, the recommendation of every day has
\* largeTrucks = 0 and largeCapacity = 0, under either strategy.
C6_NoLargeTrucksWhenDisabled ==
    ~useLargeTrucks =>
        \A i \in Rows :
            /\ fleetRequirements[i].largeTrucks = 0
            /\ fleetRequirements[i].largeCapacity = 0

\* Large trucks are disabled under the capacity strategy on a day that would
\* otherwise be given one.
C6_Witness ==
    /\ ~useLargeTrucks
    /\ optimizationStrategy = "capacity"
    /\ \E i \in Rows :
           /\ fleetRequirements[i].packages > 0
           /\ CapacityExpected(fleetRequirements[i].packages, regularTruckCapacity,
                               largeTruckCapacityMax, TRUE)[2] > 0
           /\ fleetRequirements[i].regularTrucks > 0

\* What C7 expects of a requirement r: the override of its day when there is
\* one, else the recommendation.
FollowsOverride(r) ==
    IF Overridden(r.day)
    THEN /\ AssignedRegularOf(r) = manualAssignments[r.day].regular
         /\ AssignedLargeOf(r) = manualAssignments[r.day].large
    ELSE /\ AssignedRegularOf(r) = r.regularTrucks
         /\ AssignedLargeOf(r) = r.largeTrucks

\* C7 as claimed: on every day processed, days of 0 packages included, the
\* assigned trucks are the override of that day when one is stored, else the
\* recommendation.
C7_AssignedOnEveryDay ==
    \A i \in Rows : FollowsOverride(fleetRequirements[i])

\* C7 as amended: that holds on every day with packages > 0; a day of 0
\* packages carries no assignment, so its readers see 0 regular and 0 large
\* trucks whatever override is stored for it.
C7_AssignedOnDaysWithPackages ==
    \A i \in Rows :
        LET r == fleetRequirements[i]
        IN  IF r.packages > 0
            THEN /\ {"assignedRegularTrucks", "assignedLargeTrucks"} \subseteq DOMAIN r
                 /\ FollowsOverride(r)
            ELSE AssignedRegularOf(r) = 0 /\ AssignedLargeOf(r) = 0

\* A day with packages whose override differs from the recommendation in both
\* truck classes.
C7_Witness ==
    \E i \in Rows :
        LET r == fleetRequirements[i]
        IN  /\ r.packages > 0
            /\ Overridden(r.day)
            /\ r.assignedRegularTrucks # r.regularTrucks
            /\ r.assignedLargeTrucks # r.largeTrucks

\* C8: on every day with packages > 0, remainingPackages = max(0, packages -
\* (assignedRegularTrucks * regularCapacity + assignedLargeTrucks *
\* largeCapacityMax)); an override of 0 and 0 trucks on 500 packages leaves 500.
C8_RemainingPackages ==
    /\ \A i \in Rows :
           LET r == fleetRequirements[i]
           IN  r.packages > 0 =>
                   r.remainingPackages =
                       Max0(r.packages
                            - (r.assignedRegularTrucks * regularTruckCapacity
                               + r.assignedLargeTrucks * largeTruckCapacityMax))
    /\ RequirementOf([forecast |-> 500, day |-> 1], "cost", TRUE, 2200, 2800,
                     [d \in {1} |-> [regular |-> 0, large |-> 0]]).remainingPackages
           = 500

\* A day with packages overridden to 0 regular and 0 large trucks.
C8_Witness ==
    \E i \in Rows :
        LET r == fleetRequirements[i]
        IN  /\ r.packages > 0
            /\ Overridden(r.day)
            /\ r.assignedRegularTrucks = 0 /\ r.assignedLargeTrucks = 0
            /\ r.remainingPackages = r.packages

\* C9: a day whose forecast is 0 packages gets a FleetRequirement with
\* regularTrucks = largeTrucks = totalTrucks = 0 and all capacities 0, nothing
\* remaining, and nothing else computed for it.
C9_ZeroPackagesDay ==
    LET data == DataToProcess(forecastData, selectedTerminal, selectedDay,
                              terminalSpecificData)
    IN  /\ Len(fleetRequirements) = Len(data)
        /\ \A i \in 1..Len(data) :
               Packages(data[i]) = 0 =>
                   /\ fleetRequirements[i] =
                          [day |-> data[i].day, packages |-> 0,
                           regularTrucks |-> 0, largeTrucks |-> 0,
                           totalTrucks |-> 0, regularCapacity |-> 0,
                           largeCapacity |-> 0, totalCapacity |-> 0]
                   /\ RemainingOf(fleetRequirements[i]) = 0

\* A day of 0 packages has been processed while an override is stored for it.
C9_Witness ==
    \E i \in Rows :
        /\ forecastData[i].forecast = 0
        /\ fleetRequirements[i].packages = 0
        /\ Overridden(fleetRequirements[i].day)

\* C10: with a non-positive regularCapacity or largeCapacityMax the allocator
\* emits no FleetRequirement whose truck count is infinite or NaN.
C10_NoInfiniteTrucks ==
    (regularTruckCapacity <= 0 \/ largeTruckCapacityMax <= 0) =>
        \A i \in Rows :
            /\ IsFinite(fleetRequirements[i].regularTrucks)
            /\ IsFinite(fleetRequirements[i].largeTrucks)
            /\ IsFinite(fleetRequirements[i].totalTrucks)

\* The forecast days the allocator was run on.
Processed ==
    DataToProcess(forecastData, selectedTerminal, selectedDay, terminalSpecificData)

\* C16: the allocator emits one FleetRequirement per forecast day it is given,
\* in the order given, with the day of the forecast point and packages equal
\* to its forecast; a point without a forecast gives packages = 0.
C16_OneRequirementPerDay ==
    /\ Len(fleetRequirements) = Len(Processed)
    /\ \A i \in Rows :
           /\ fleetRequirements[i].day = Processed[i].day
           /\ fleetRequirements[i].packages = Processed[i].forecast
    /\ \A day \in 1..2 :
           LET r == RequirementOf([day |-> day], optimizationStrategy, useLargeTrucks,
                                  regularTruckCapacity, largeTruckCapacityMax,
                                  manualAssignments)
           IN  r.day = day /\ r.packages = 0

C16_Witness ==
    /\ selectedTerminal = "KR"
    /\ selectedDay = <<>>
    /\ Len(fleetRequirements) = 2
    /\ fleetRequirements[1].day = 1 /\ fleetRequirements[1].packages = 7
    /\ fleetRequirements[2].day = 2 /\ fleetRequirements[2].packages = 0
    /\ 2 \in DOMAIN manualAssignments

\* The sum of the first n of the values, taken from the last one back.
RECURSIVE RowSum(_, _)
RowSum(values, n) ==
    IF n = 0 THEN 0 ELSE values[n] + RowSum(values, n - 1)

\* The trucks assigned on a row: the override on a day with packages that has
\* one, the recommendation otherwise.
RegularAssignedOn(r) ==
    IF r.packages > 0 /\ Overridden(r.day) THEN manualAssignments[r.day].regular
    ELSE r.regularTrucks

LargeAssignedOn(r) ==
    IF r.packages > 0 /\ Overridden(r.day) THEN manualAssignments[r.day].large
    ELSE r.largeTrucks

RemainingOn(r) == IF "remainingPackages" \in DOMAIN r THEN r.remainingPackages ELSE 0

\* C17: the summary: totalPackages is the sum of packages, totalRegularTrucks
\* and totalLargeTrucks the sums of the assigned regular and large trucks,
\* totalTrucks their sum, totalAssignedCapacity = totalRegularTrucks *
\* regularCapacity + totalLargeTrucks * largeCapacityMax, totalRemainingPackages
\* the sum of remainingPackages, totalAdditionalCapacity = max(0,
\* totalAssignedCapacity - totalPackages) and averageDailyTrucks = totalTrucks /
\* number of days (0 when there is none).
C17_SummaryTotals ==
    LET reqs == fleetRequirements
        packages == RowSum([i \in Rows |-> reqs[i].packages], Len(reqs))
        regular == RowSum([i \in Rows |-> RegularAssignedOn(reqs[i])], Len(reqs))
        large == RowSum([i \in Rows |-> LargeAssignedOn(reqs[i])], Len(reqs))
        capacity == regular * regularTruckCapacity + large * largeTruckCapacityMax
    IN  /\ TotalPackages(reqs) = packages
        /\ TotalRegularTrucks(reqs) = regular
        /\ TotalLargeTrucks(reqs) = large
        /\ TotalTrucks(reqs) = regular + large
        /\ TotalAssignedCapacity(reqs, regularTruckCapacity, largeTruckCapacityMax)
               = capacity
        /\ TotalRemainingPackages(reqs)
               = RowSum([i \in Rows |-> RemainingOn(reqs[i])], Len(reqs))
        /\ TotalAdditionalCapacity(reqs, regularTruckCapacity, largeTruckCapacityMax)
               = Max0(capacity - packages)
        /\ AverageDailyTrucks(reqs).n * Len(reqs)
               = (regular + large) * AverageDailyTrucks(reqs).d
        /\ Len(reqs) = 0 => AverageDailyTrucks(reqs) = Whole(0)

C17_Witness ==
    /\ Len(fleetRequirements) = 2
    /\ fleetRequirements[1].packages > 0
    /\ Overridden(1)
    /\ fleetRequirements[1].assignedRegularTrucks # fleetRequirements[1].regularTrucks
    /\ TotalRemainingPackages(fleetRequirements) = 1
    /\ TotalAdditionalCapacity(fleetRequirements, regularTruckCapacity,
                               largeTruckCapacityMax) = 0
    /\ TotalTrucks(fleetRequirements) = 2
    /\ AverageDailyTrucks(fleetRequirements) = Whole(1)

TrucksAssignedOn(r) == RegularAssignedOn(r) + LargeAssignedOn(r)

\* C18: the peak day is the FleetRequirement with the highest assigned total
\* truck count (assigned regular + assigned large, overrides counted), and of
\* several days with that count the first in day order.
C18_PeakDay ==
    Len(fleetRequirements) > 0 =>
        \E i \in Rows :
            /\ PeakDay(fleetRequirements) = fleetRequirements[i]
            /\ \A j \in Rows :
                   TrucksAssignedOn(fleetRequirements[j])
                       <= TrucksAssignedOn(fleetRequirements[i])
            /\ \A j \in 1..(i - 1) :
                   TrucksAssignedOn(fleetRequirements[j])
                       < TrucksAssignedOn(fleetRequirements[i])

C18_Witness ==
    /\ Len(fleetRequirements) = 2
    /\ ~Overridden(1)
    /\ Overridden(2)
    /\ fleetRequirements[2].packages > 0
    /\ fleetRequirements[2].assignedRegularTrucks # fleetRequirements[2].regularTrucks
    /\ TrucksAssignedOn(fleetRequirements[1]) = TrucksAssignedOn(fleetRequirements[2])
    /\ TrucksAssignedOn(fleetRequirements[1]) > 0
    /\ PeakDay(fleetRequirements).day = 1

HeuristicFields(r) ==
    <<r.regularTrucks, r.largeTrucks, r.totalTrucks,
      r.regularCapacity, r.largeCapacity, r.totalCapacity>>

\* C19: the overrides never change the recommendation: regularTrucks,
\* largeTrucks, totalTrucks, regularCapacity, largeCapacity and totalCapacity
\* of every FleetRequirement are those computed with no override at all.
C19_OverridesLeaveRecommendation ==
    \A i \in Rows :
        HeuristicFields(fleetRequirements[i]) =
            HeuristicFields(RequirementOf(Processed[i], optimizationStrategy,
                                          useLargeTrucks, regularTruckCapacity,
                                          largeTruckCapacityMax, <<>>))

C19_Witness ==
    /\ Len(fleetRequirements) = 1
    /\ Overridden(1)
    /\ fleetRequirements[1].regularTrucks = 1
    /\ fleetRequirements[1].largeTrucks = 0
    /\ fleetRequirements[1].assignedRegularTrucks = 2
    /\ fleetRequirements[1].assignedLargeTrucks = -1
    /\ fleetRequirements[1].totalCapacity = regularTruckCapacity

\* A change of one of the four selectors that decide which days are shown.
DaySetChanged ==
    \/ selectedTerminal' # selectedTerminal
    \/ selectedMonth' # selectedMonth
    \/ selectedYear' # selectedYear
    \/ selectedDay' # selectedDay

\* C20: an override entered for day d stops applying once the underlying
\* day set changes: after a change of the selected terminal, month, year or
\* day no FleetRequirement takes its assigned counts from an override
\* entered before the change.
C20_OverrideEndsWithDaySet ==
    [][DaySetChanged =>
          \A i \in 1..Len(fleetRequirements') :
              LET r == fleetRequirements'[i]
              IN  ~ /\ r.day \in DOMAIN manualAssignments'
                    /\ r.packages > 0
                    /\ r.assignedRegularTrucks = manualAssignments'[r.day].regular
                    /\ r.assignedLargeTrucks = manualAssignments'[r.day].large
                    /\ <<r.assignedRegularTrucks, r.assignedLargeTrucks>>
                           # <<r.regularTrucks, r.largeTrucks>>]_vars

\* C22: after any sequence of handleManualAssignment calls every stored
\* override has regular >= 0 and large >= 0, so that the assigned capacity
\* of every day is >= 0 and its remainingPackages <= its packages.
C22_OverridesNotNegative ==
    /\ \A d \in DOMAIN manualAssignments :
           manualAssignments[d].regular >= 0 /\ manualAssignments[d].large >= 0
    /\ \A i \in Rows :
           /\ CapacityAssignedTo(fleetRequirements[i]) >= 0
           /\ RemainingOf(fleetRequirements[i]) <= fleetRequirements[i].packages

\* The fewest trucks that carry the packages: regular ones and, when allowed,
\* large ones, in any combination.
MinTrucks(packages, regCap, largeCap, useLarge) ==
    LET Carried(n) ==
            \E large \in 0..(IF useLarge THEN n ELSE 0) :
                (n - large) * regCap + large * largeCap >= packages
    IN  CHOOSE n \in 0..packages :
            Carried(n) /\ \A fewer \in 0..(n - 1) : ~Carried(fewer)

CostRows ==
    {i \in Rows : optimizationStrategy = "cost" /\ fleetRequirements[i].packages > 0}

\* C23 as stated: under the cost strategy the recommended totalTrucks is the
\* minimum number of trucks that can carry the day's packages with the allowed
\* vehicle classes (regular only when useLargeTrucks is false, regular and
\* large otherwise).
C23_CostStrategyMinimalTrucks ==
    \A i \in CostRows :
        fleetRequirements[i].totalTrucks =
            MinTrucks(fleetRequirements[i].packages, regularTruckCapacity,
                      largeTruckCapacityMax, useLargeTrucks)

\* C23, amended: under the cost strategy the recommended totalTrucks is
\* ceil(packages / regularCapacity), the minimum number of trucks of regular
\* capacity that carry the day's packages, at most one of them replaced by a
\* large truck; it is the minimum over the allowed vehicle classes when
\* useLargeTrucks is false or largeCapacityMax <= regularCapacity.
C23_CostStrategyTruckCount ==
    \A i \in CostRows :
        LET r == fleetRequirements[i]
        IN  /\ r.totalTrucks =
                   (r.packages + regularTruckCapacity - 1) \div regularTruckCapacity
            /\ r.totalTrucks =
                   MinTrucks(r.packages, regularTruckCapacity, largeTruckCapacityMax, FALSE)
            /\ r.largeTrucks \in {0, 1}
            /\ (~useLargeTrucks \/ largeTruckCapacityMax <= regularTruckCapacity) =>
                   r.totalTrucks =
                       MinTrucks(r.packages, regularTruckCapacity,
                                 largeTruckCapacityMax, useLargeTrucks)

C23_Witness ==
    /\ CostRows # {}
    /\ useLargeTrucks
    /\ largeTruckCapacityMax > regularTruckCapacity
    /\ fleetRequirements[1].packages = 4
    /\ fleetRequirements[1].totalTrucks = 2
    /\ MinTrucks(4, regularTruckCapacity, largeTruckCapacityMax, TRUE) = 1

C28_RecommendationCoversDemand ==
    (regularTruckCapacity > 0 /\ largeTruckCapacityMax > 0) =>
        \A i \in Rows :
            LET r == fleetRequirements[i]
            IN  ~Overridden(r.day) =>
                    /\ r.totalCapacity >= r.packages
                    /\ RemainingOf(r) = 0
                    /\ r.packages > 0 =>
                           /\ r.remainingPackages = 0
                           /\ r.totalCapacity =
                                  r.regularTrucks * regularTruckCapacity
                                      + r.largeTrucks * largeTruckCapacityMax

C28_Witness ==
    \E i \in Rows :
        /\ ~Overridden(fleetRequirements[i].day)
        /\ optimizationStrategy = "capacity"
        /\ useLargeTrucks
        /\ regularTruckCapacity < largeTruckCapacityMax
        /\ fleetRequirements[i].packages = 4
        /\ fleetRequirements[i].totalCapacity = 5
        /\ fleetRequirements[i].remainingPackages = 0

\* The integer each typed text stands for, 0 for a text without one.
TypedCount(text) ==
    CASE text = <<"2">> -> 2
      [] text = <<"-", "1">> -> 0 - 1
      [] text = <<" ", "2", ".", "5">> -> 2
      [] OTHER -> 0

\* The override of a day before an edit, a day without one counting as 0 / 0.
StoredBefore(day) ==
    IF Overridden(day) THEN manualAssignments[day] ELSE [regular |-> 0, large |-> 0]

\* The step edits the field `type` of the day `day` with the text `text`.
EditOf(day, type, text) ==
    /\ DOMAIN manualAssignments' = DOMAIN manualAssignments \cup {day}
    /\ \A d \in DOMAIN manualAssignments \ {day} :
           manualAssignments'[d] = manualAssignments[d]
    /\ manualAssignments'[day] =
           IF type = "regular"
           THEN [regular |-> TypedCount(text), large |-> StoredBefore(day).large]
           ELSE [regular |-> StoredBefore(day).regular, large |-> TypedCount(text)]

\* C29: handleManualAssignment(day, type, value) stores for the day the parsed
\* integer for the edited type (0 for a text that does not parse) and for the
\* other type the value stored before, 0 when the day had no override, whatever
\* its recommendation; the overrides of the other days stay as they were.
C29_ManualAssignmentFrame ==
    [][manualAssignments' # manualAssignments =>
          \E i \in Rows, type \in {"regular", "large"},
             text \in SelectionTexts \cup InputTexts :
              EditOf(fleetRequirements[i].day, type, text)]_vars

\* Day 2 got its first override by an edit of the regular trucks while day 1
\* keeps an override: its large trucks are stored as 0 although one is
\* recommended.
C29_Witness ==
    /\ DOMAIN manualAssignments = {1, 2}
    /\ manualAssignments[1] = [regular |-> 0, large |-> 2]
    /\ manualAssignments[2] = [regular |-> 2, large |-> 0]
    /\ Len(fleetRequirements) = 2
    /\ fleetRequirements[2].packages > 0
    /\ fleetRequirements[2].largeTrucks = 1

(***************************************************************************)
(* Properties of the forecast engine.                                      *)
(***************************************************************************)
Filtered == FilteredHistorical(historical, historicalMeta, filter)

Points == {forecast[i] : i \in 1..Len(forecast)}

\* C2: every ForecastPoint that calculateForecast emits has non-negative
\* integer forecast, forecastMin and forecastMax with
\* forecastMin <= forecast <= forecastMax, whatever the history (a downward
\* trend that makes baseForecast negative included) and the day-type filter.
C2_ForecastPointBounds ==
    pc = "done" =>
        \A p \in Points :
            /\ p.forecast \in Nat
            /\ p.forecastMin \in Nat
            /\ p.forecastMax \in Nat
            /\ p.forecastMin <= p.forecast
            /\ p.forecast <= p.forecastMax

\* A downward trend has made baseForecast negative; one day's forecastValue is
\* negative and its forecast is 0, another day's interval is proper.
C2_Witness ==
    /\ pc = "done"
    /\ BaseForecast(Filtered).n < 0
    /\ \E p \in Points :
           /\ ForecastValues(historical, historicalMeta, filter)
                  [DayOfWeek(targetYear, targetMonth, p.day)].n < 0
           /\ p.forecast = 0
    /\ \E p \in Points : p.forecastMin < p.forecast /\ p.forecast < p.forecastMax

\* The Saturdays and Sundays of the target months, read off the calendar.
WeekendDaysOf(y, m) ==
    IF y = 2025 /\ m = 11 THEN {1, 2, 8, 9, 15, 16, 22, 23, 29, 30}
    ELSE IF y = 2025 /\ m = 12 THEN {6, 7, 13, 14, 20, 21, 27, 28}
    ELSE {}

\* The days of the target months, read off the calendar.
CalendarDaysOf(y, m) ==
    IF y = 2025 /\ m = 11 THEN 1..30
    ELSE IF y = 2025 /\ m = 12 THEN 1..31
    ELSE {}

MatchingDays ==
    IF filter = "weekend" THEN WeekendDaysOf(targetYear, targetMonth)
    ELSE IF filter = "weekday"
    THEN CalendarDaysOf(targetYear, targetMonth) \ WeekendDaysOf(targetYear, targetMonth)
    ELSE CalendarDaysOf(targetYear, targetMonth)

\* C3: for a non-empty history calculateForecast emits exactly one
\* ForecastPoint, in ascending day order, for each calendar day of the target
\* month that matches the day-type filter (all: every day; weekend: Saturdays
\* and Sundays; weekday: the others); days filtered out are omitted, so the
\* output is as long as there are matching days.
C3_OnePointPerMatchingDay ==
    (pc = "done" /\ historical # <<>>) =>
        /\ \A i \in 1..(Len(forecast) - 1) : forecast[i].day < forecast[i + 1].day
        /\ {forecast[i].day : i \in 1..Len(forecast)} = MatchingDays
        /\ Len(forecast) = Cardinality(MatchingDays)

\* November 2025 under the weekday filter: 20 points, none on the 1st-2nd, 8th-9th,
\* 15th-16th, 22nd-23rd and 29th-30th.
C3_Witness ==
    /\ pc = "done"
    /\ historical # <<>>
    /\ targetYear = 2025
    /\ targetMonth = 11
    /\ filter = "weekday"
    /\ Len(forecast) = 20
    /\ forecast[1].day = 3
    /\ forecast[20].day = 28

\* C11: when every observation of every batch of the history has the same
\* value v > 0, then whatever the filter the overall average is v, the trend is
\* 0 and every forecast point has forecast = v.
SameValueEverywhere(v) ==
    \A i \in 1..Len(historical) : \A j \in 1..Len(historical[i]) :
        historical[i][j].value = v

C11_IdenticalObservations ==
    \A v \in HistoryValues \ {0} :
        (pc = "done" /\ historical # <<>> /\ SameValueEverywhere(v)) =>
            /\ OverallAverage(Filtered) = Whole(v)
            /\ Trend(MonthlyAverages(Filtered)) = Whole(0)
            /\ \A p \in Points : p.forecast = v

C11_Witness ==
    /\ pc = "done"
    /\ Len(historical) = 3
    /\ SameValueEverywhere(4)
    /\ filter = "weekend"
    /\ forecast # <<>>
    /\ \A p \in Points : p.forecast = 4

DowSum(dow) ==
    SumOf([i \in 1..Len(Filtered) |->
        SumOf([j \in 1..Len(Filtered[i]) |->
            IF /\ Filtered[i][j].value > 0
               /\ DayOfWeek(historicalMeta[i].year, historicalMeta[i].month,
                            Filtered[i][j].day) = dow
            THEN Filtered[i][j].value ELSE 0])])

DowCount(dow) ==
    SumOf([i \in 1..Len(Filtered) |->
        SumOf([j \in 1..Len(Filtered[i]) |->
            IF /\ Filtered[i][j].value > 0
               /\ DayOfWeek(historicalMeta[i].year, historicalMeta[i].month,
                            Filtered[i][j].day) = dow
            THEN 1 ELSE 0])])

DowSeen(dow) ==
    \E i \in 1..Len(Filtered) : \E j \in 1..Len(Filtered[i]) :
        DayOfWeek(historicalMeta[i].year, historicalMeta[i].month,
                  Filtered[i][j].day) = dow

\* overallAverage + trend * (N + 1), N the number of batches.
ExpectedBase ==
    FAdd(OverallAverage(Filtered),
         FMul(Trend(MonthlyAverages(Filtered)), Whole(Len(historical) + 1)))

\* The forecastValue C25 gives for a target day on the day of the week dow.
ExpectedForecastValue(dow) ==
    LET dowAverage == IF DowCount(dow) > 0 THEN Frac(DowSum(dow), DowCount(dow))
                      ELSE OverallAverage(Filtered)
    IN  IF DowSeen(dow)
        THEN FAdd(FMul(Frac(7, 10), dowAverage), FMul(Frac(3, 10), ExpectedBase))
        ELSE ExpectedBase

\* C25: for every target day that passes the filter, forecastValue = 0.7 *
\* dowAverage + 0.3 * baseForecast, with baseForecast = overallAverage + trend
\* * (N + 1) and dowAverage the mean of the positive filtered values observed
\* on that day of the week, or overallAverage when there is none; forecastValue
\* = baseForecast only when the day of the week has no average.  The emitted
\* forecast is that value rounded and clamped at 0.
C25_ForecastValue ==
    pc = "done" =>
        \A dow \in 0..6 :
            LET expected == ClampedRound(ExpectedForecastValue(dow))
            IN  \A i \in 1..Len(forecast) :
                    DayOfWeek(targetYear, targetMonth, forecast[i].day) = dow =>
                        forecast[i].forecast = expected

C25_Witness ==
    /\ pc = "done"
    /\ Len(historical) = 3
    /\ filter = "all"
    /\ \E i \in 1..Len(forecast) :
           LET dow == DayOfWeek(targetYear, targetMonth, forecast[i].day)
           IN  /\ DowCount(dow) > 0
               /\ forecast[i].forecast # ClampedRound(ExpectedBase)
    /\ \E i \in 1..Len(forecast) :
           LET dow == DayOfWeek(targetYear, targetMonth, forecast[i].day)
           IN  /\ DowCount(dow) = 0
               /\ DowSeen(dow)
               /\ forecast[i].forecast > 0

\* The mean of the positive filtered values of batch i, 0 when it has none.
MonthMean(i) ==
    LET sum == SumOf([j \in 1..Len(Filtered[i]) |->
                   IF Filtered[i][j].value > 0 THEN Filtered[i][j].value ELSE 0])
        count == SumOf([j \in 1..Len(Filtered[i]) |->
                     IF Filtered[i][j].value > 0 THEN 1 ELSE 0])
    IN  IF count > 0 THEN Frac(sum, count) ELSE Whole(0)

\* The least-squares slope of the points (i, MonthMean(i)), i = 1..N, in its
\* centred form: sum (x - mx)(y - my) / sum (x - mx)^2.
LeastSquaresSlope ==
    LET N == Len(historical)
        mx == Frac(N + 1, 2)
        my == FDiv(FSum([i \in 1..N |-> MonthMean(i)]), Whole(N))
        sxy == FSum([i \in 1..N |->
                   FMul(FSub(Whole(i), mx), FSub(MonthMean(i), my))])
        sxx == FSum([i \in 1..N |->
                   FMul(FSub(Whole(i), mx), FSub(Whole(i), mx))])
    IN  FDiv(sxy, sxx)

\* C26: trend is the least-squares slope of the monthly averages (mean of the
\* positive filtered values of a batch, 0 for a batch with none) against their
\* positions 1..N, oldest first, and 0 when N <= 1, so that with a single
\* batch baseForecast = overallAverage.
C26_TrendIsLeastSquaresSlope ==
    pc = "done" =>
        LET N == Len(historical)
            trend == Trend(MonthlyAverages(Filtered))
        IN  /\ \A i \in 1..N : MonthlyAverages(Filtered)[i] = MonthMean(i)
            /\ N > 1 => trend = LeastSquaresSlope
            /\ N <= 1 => /\ trend = Whole(0)
                         /\ BaseForecast(Filtered) = OverallAverage(Filtered)

C26_Witness ==
    /\ pc = "done"
    /\ Len(historical) = 3
    /\ LeastSquaresSlope = Frac(3, 2)
    /\ Trend(MonthlyAverages(Filtered)) = Frac(3, 2)
    /\ forecast # <<>>

\* The number of positive values of the filtered history and the sum of
\* their squares.
PositiveCount ==
    SumOf([i \in 1..Len(Filtered) |->
        SumOf([j \in 1..Len(Filtered[i]) |->
            IF Filtered[i][j].value > 0 THEN 1 ELSE 0])])

SquareSum ==
    SumOf([i \in 1..Len(Filtered) |->
        SumOf([j \in 1..Len(Filtered[i]) |->
            IF Filtered[i][j].value > 0
            THEN Filtered[i][j].value * Filtered[i][j].value ELSE 0])])

\* The square of stdDev: of 0.2 * overallAverage below 2 positive values, the
\* population variance (mean of the squares minus the square of the mean)
\* from 2 on.
StdDevRule ==
    LET mean == OverallAverage(Filtered)
    IN  StdDevSquared(Filtered) =
            IF PositiveCount >= 2
            THEN FSub(Frac(SquareSum, PositiveCount), FMul(mean, mean))
            ELSE FMul(FMul(Frac(1, 5), mean), FMul(Frac(1, 5), mean))

Failed(response) == response.kind \in {"notOk", "thrown"}

Positive(response) ==
    /\ response.kind = "ok"
    /\ \E j \in 1..Len(response.data) : response.data[j].value > 0

\* The requests answered so far whose response carries a positive count,
\* in the order they were made.
PositiveRequests ==
    SelectSeq([k \in 1..Len(responses) |-> k], LAMBDA k : Positive(responses[k]))

RequestedOf(k) == RequestedMonth(targetYear, targetMonth, selectedMonths, k)

ExpectedWindow == [i \in 1..Len(PositiveRequests) |-> responses[PositiveRequests[i]].data]

ExpectedMeta == [i \in 1..Len(PositiveRequests) |-> RequestedOf(PositiveRequests[i])]

\* C12: a month is in the window handed to calculateForecast only if its
\* response has an observation with value > 0; a month whose response is all
\* zeros or has no entry is not in the window, and the forecast is the one of
\* the months with a positive count alone, so that it adds nothing to N or
\* to an average.
C12_WindowHoldsPositiveMonthsOnly ==
    /\ \A i \in 1..Len(historical) :
           /\ \E j \in 1..Len(historical[i]) : historical[i][j].value > 0
           /\ \E k \in 1..Len(responses) :
                  /\ Positive(responses[k])
                  /\ responses[k].data = historical[i]
                  /\ RequestedOf(k) = historicalMeta[i]
    /\ \A k \in 1..Len(responses) :
           ~Positive(responses[k]) =>
               \A i \in 1..Len(historicalMeta) : historicalMeta[i] # RequestedOf(k)
    /\ Len(historical) = Len(PositiveRequests)
    /\ (pc = "shown" /\ PositiveRequests # <<>>) =>
           forecast = CalculateForecast(ExpectedWindow, ExpectedMeta, filter,
                                        targetYear, targetMonth)

C12_Witness ==
    /\ pc = "shown"
    /\ Len(responses) = 3
    /\ responses[1].kind = "ok" /\ responses[1].data = <<>>
    /\ Positive(responses[2])
    /\ responses[3].kind = "ok" /\ responses[3].data # <<>> /\ ~Positive(responses[3])
    /\ Len(historical) = 1
    /\ forecast # <<>>

MonthIndex(meta) == meta.year * 12 + meta.month

\* C13: a request that fails (response not OK, or error thrown) leaves out its
\* month alone: the run goes on to its last request, ends with loading = false,
\* and its forecast is the one of exactly the months answered with a positive
\* count, oldest first.
C13_FailedMonthLeftOut ==
    /\ pc = "shown" <=> Len(responses) = selectedMonths
    /\ (pc = "shown" /\ \E k \in 1..Len(responses) : Failed(responses[k])) =>
           /\ loading = FALSE
           /\ historical = ExpectedWindow
           /\ historicalMeta = ExpectedMeta
           /\ \A i \in 1..(Len(historicalMeta) - 1) :
                  MonthIndex(historicalMeta[i]) < MonthIndex(historicalMeta[i + 1])
           /\ forecast = CalculateForecast(historical, historicalMeta, filter,
                                           targetYear, targetMonth)

C13_Witness ==
    /\ pc = "shown"
    /\ Len(responses) = 3
    /\ responses[1].kind = "thrown"
    /\ Positive(responses[2])
    /\ responses[3].kind = "notOk"
    /\ historicalMeta = <<RequestedOf(2)>>
    /\ forecast # <<>>
    /\ loading = FALSE

\* C14: calculateForecast of an empty list of batches is the empty list, and
\* a run in which no month is answered with a positive count (every request
\* failing included) ends with forecastData, historicalData and combinedData
\* empty and loading = false.
C14_NoDataIsNotAnError ==
    /\ CalculateForecast(<<>>, <<>>, filter, targetYear, targetMonth) = <<>>
    /\ (Len(responses) = selectedMonths /\ PositiveRequests = <<>>) =>
           /\ pc = "shown"
           /\ forecast = <<>>
           /\ historicalData = <<>>
           /\ combinedData = <<>>
           /\ loading = FALSE

C14_Witness ==
    /\ pc = "shown"
    /\ Len(responses) = 3
    /\ \A k \in 1..3 : Failed(responses[k])
    /\ forecast = <<>>
    /\ combinedData = <<>>
    /\ loading = FALSE
(***************************************************************************)
(* Properties of LogisticsSection.                                         *)
(***************************************************************************)
\* C21: whenever the chart's forecastData changes, also when it becomes
\* empty because the new selection has no history, the forecastData that
\* FleetDemandForecast consumes becomes equal to it.
C21_FleetFollowsChart ==
    [][forecast' # forecast => forecastData' = forecast']_vars

\* C30: when the selection was changed while an earlier run of
\* fetchHistoricalData was awaiting its responses, then once all runs have
\* finished forecastData is the forecast of the latest selection, never that
\* of an older run which finished later.
C30_LatestSelectionWins ==
    (pc = "dashboard" /\ runs = <<>>) => forecast = DisplayOf[CurrentSelection].fc

====
